---- MODULE Spec2Model ----
(***************************************************************************)
(* Payment confirmation and reconciliation pipeline of doare.back:         *)
(* the Pix webhook router, DonationService.handlePixWebhook, the           *)
(* Donation model's save(), DonationService.createDonation and the SSE     *)
(* notification hub.                                                       *)
(*                                                                         *)
(* One action is the completion of one awaited operation (store query,     *)
(* gateway call, registry query, store write) together with the            *)
(* synchronous code that runs after it up to the next await.               *)
(***************************************************************************)
EXTENDS Integers, Sequences, FiniteSets, TLC

VARIABLES
    donations,   \* the "donations" collection: a set of documents, each with its id
    hw,          \* per request: the locals of the handlePixWebhook call in flight
    router,      \* per request: the locals of router.post("/pix")
    clients,     \* SSEService.clients: txId -> connection
    conns,       \* the SSE connections ever opened: what was written to each
    cd,          \* the locals of the createDonation call in flight
    observed,    \* history: the txIds handlePixWebhook has been invoked for
    lastCall,    \* history: summary of the handlePixWebhook call completed last
    started,     \* number of requests accepted so far (bounds the exploration)
    twin,        \* two handlePixWebhook calls run side by side on one store
    efiAuth      \* EFIAuth.js: the cached token, the clock, the getToken calls

vars == <<donations, hw, router, clients, conns, cd, observed, lastCall,
          started, twin, efiAuth>>

(***************************************************************************)
(* Bounds of the exploration.                                              *)
(***************************************************************************)
NumTx == 2          \* distinct transaction ids
NumWorkers == 2     \* webhook requests the runtime may have in flight
MaxBatch == 2       \* longest pix array of a webhook body
MaxRequests == 3    \* requests (webhook, charge creation, SSE) accepted in a run
MaxPings == 1       \* keep-alive pings written to one connection
MaxBatchRequests == 1   \* webhook requests of a run that sends pix arrays

TxIds == { "tx" \o ToString(i) : i \in 1..NumTx }
Workers == 1..NumWorkers

(***************************************************************************)
(* JavaScript values.                                                      *)
(***************************************************************************)
Undefined == "undefined"
Null == "null"
NaN == "NaN"

\* !x of JavaScript, on the values the model uses
Falsy(x) == x \in {Undefined, Null, NaN, "0", ""}

\* parseFloat on the amounts the model uses: a decimal string, or a number
parseFloat(s) ==
    CASE s = "50.00" -> "50"
      [] s = "50"    -> "50"
      [] s = "0.00"  -> "0"
      [] s = "0"     -> "0"
      [] s = "-5"    -> "-5"
      [] OTHER       -> NaN

(***************************************************************************)
(* Time values: a Firestore Timestamp (seconds, nanoseconds), a native     *)
(* Date (milliseconds), the serverTimestamp() sentinel, or undefined.      *)
(***************************************************************************)
Timestamp(s, n) == [kind |-> "timestamp", seconds |-> s, nanoseconds |-> n]
Date(ms) == [kind |-> "date", ms |-> ms]
ServerTimestampSentinel == [kind |-> "serverTimestamp"]
NoTime == [kind |-> Undefined]

\* What the store writes for serverTimestamp(): microsecond precision.
ServerTimes == { Timestamp(1, 0), Timestamp(1, 2500000) }

\* Timestamp.fromDate
fromDate(d) == Timestamp(d.ms \div 1000, (d.ms % 1000) * 1000000)

convertToDate(timestamp) ==
    IF timestamp.kind = "timestamp"
    THEN Date(timestamp.seconds * 1000 + timestamp.nanoseconds \div 1000000)
    ELSE IF timestamp.kind = "date" THEN timestamp
    ELSE NoTime

(***************************************************************************)
(* Errors: the class name, whether the object carries `response`, and the  *)
(* message as the pieces of its template literal (empty where no property  *)
(* reads it).                                                              *)
(***************************************************************************)
Error(name) == [name |-> name, response |-> FALSE, message |-> <<>>]
NoError == [name |-> "none", response |-> FALSE, message |-> <<>>]

(***************************************************************************)
(* Donation model objects and documents.                                   *)
(***************************************************************************)
NoDonation == [kind |-> Null]

\* new DonationModel({...})
Donation(o) ==
    [kind |-> "donation",
     id |-> o.id,
     donorCPF |-> o.donorCPF,
     donorName |-> o.donorName,
     donorCIM |-> o.donorCIM,
     amount |-> parseFloat(o.amount),
     txId |-> o.txId,
     locId |-> o.locId,
     qrCode |-> o.qrCode,
     copyPaste |-> o.copyPaste,
     status |-> o.status,
     createdAt |-> convertToDate(o.createdAt)]

\* dataToSave of save()
dataToSave(this) ==
    [donorCPF |-> this.donorCPF,
     donorName |-> this.donorName,
     donorCIM |-> this.donorCIM,
     amount |-> this.amount,
     txId |-> this.txId,
     locId |-> this.locId,
     qrCode |-> this.qrCode,
     copyPaste |-> this.copyPaste,
     status |-> this.status,
     createdAt |-> IF this.createdAt.kind = "date"
                   THEN fromDate(this.createdAt)
                   ELSE IF this.createdAt.kind # Undefined
                        THEN this.createdAt
                        ELSE ServerTimestampSentinel]

\* The document the store keeps for `data` written under `id` at server time `now`
Document(id, data, now) ==
    [id |-> id,
     donorCPF |-> data.donorCPF,
     donorName |-> data.donorName,
     donorCIM |-> data.donorCIM,
     amount |-> data.amount,
     txId |-> data.txId,
     locId |-> data.locId,
     qrCode |-> data.qrCode,
     copyPaste |-> data.copyPaste,
     status |-> data.status,
     createdAt |-> IF data.createdAt.kind = "serverTimestamp"
                   THEN now ELSE data.createdAt]

\* The id the store gives the next added document
NewDocId(docs) == "doc" \o ToString(Cardinality(docs) + 1)

\* saveDocs, were every save to add a document
saveDocsAdding(this, docs, now) ==
    docs \cup { Document(NewDocId(docs),
                         [dataToSave(this) EXCEPT
                             !.createdAt = ServerTimestampSentinel],
                         now) }

\* The store after this.save(): set(..., {merge: true}) under this.id, or add()
saveDocs(this, docs, now) ==
    IF this.id # Undefined
    THEN { d \in docs : d.id # this.id }
            \cup { Document(this.id, dataToSave(this), now) }
    ELSE docs \cup { Document(NewDocId(docs),
                              [dataToSave(this) EXCEPT
                                  !.createdAt = ServerTimestampSentinel],
                              now) }

\* this.id after save()
savedId(this, docs) == IF this.id # Undefined THEN this.id ELSE NewDocId(docs)

\* findByTxId, were the query not filtered by txId
findByTxIdUnfiltered(docs, txId) ==
    IF docs = {} THEN { NoDonation } ELSE { Donation(d) : d \in docs }

\* findByTxId: the documents the query where("txId","==",txId).limit(1) may
\* return, each as a model object; NoDonation when the snapshot is empty
findByTxId(docs, txId) ==
    LET hits == { d \in docs : d.txId = txId } IN
    IF hits = {} THEN { NoDonation } ELSE { Donation(d) : d \in hits }

(***************************************************************************)
(* The gateway (Efí): the charge a details call answers with.  The txid,   *)
(* loc, location and pixCopiaECola of a charge are fixed by the gateway;   *)
(* its status, and whether devedor and valor.original are filled in, are   *)
(* what the gateway reports at the time of the call.  handlePixWebhook     *)
(* dereferences the valor object unguarded, while it guards devedor with   *)
(* ?.: a response without valor makes it throw a TypeError.                *)
(***************************************************************************)
GatewayStatuses == {"ATIVA", "CONCLUIDA", "REMOVIDA_PELO_USUARIO_RECEBEDOR"}
GatewayCPF == "12345678901"
GatewayNome == "Jane Doe"
GatewayLocId(tx) == "loc-" \o tx
GatewayLocation(tx) == "qrcode-" \o tx
GatewayCopiaECola(tx) == "emv-" \o tx

NoObject == [kind |-> Undefined]
Devedores ==
    { NoObject } \cup
    { [kind |-> "object", cpf |-> c, nome |-> n] :
          c \in {Undefined, GatewayCPF}, n \in {Undefined, GatewayNome} }
\* valor.original: charges are created with a positive amount (createDonation)
GatewayAmounts == {Undefined, "50.00"}

Charge(tx, status, devedor, original) ==
    [txid |-> tx,
     status |-> status,
     devedor |-> devedor,
     valor |-> [kind |-> "object", original |-> original],
     loc |-> [kind |-> "object", id |-> GatewayLocId(tx)],
     location |-> GatewayLocation(tx),
     pixCopiaECola |-> GatewayCopiaECola(tx)]

\* What efi.pixDetailCharge({txid}) may settle with
SdkDetailOutcomes(tx) ==
    { [kind |-> "response", data |-> Charge(tx, s, dv, v)] :
          s \in GatewayStatuses, dv \in Devedores, v \in GatewayAmounts }
    \cup { [kind |-> "reject", responseData |-> b] : b \in BOOLEAN }

\* The complete, paid charge of the end-to-end scenario
PaidCharge(tx) ==
    Charge(tx, "CONCLUIDA",
           [kind |-> "object", cpf |-> GatewayCPF, nome |-> GatewayNome], "50.00")

\* PixService.getPixDetails: the response, or an ExternalError (built with a
\* message only: it carries no `response`)
getPixDetails(sdk) ==
    IF sdk.kind = "response"
    THEN [ok |-> TRUE, value |-> sdk.data, error |-> NoError]
    ELSE [ok |-> FALSE, value |-> NoObject, error |-> Error("ExternalError")]

(***************************************************************************)
(* The partner registry: what PartnerService.findByExactCPF settles with.  *)
(***************************************************************************)
RegistryName == "Jane Registered"
RegistryOutcomes ==
    { [kind |-> "partner", name |-> RegistryName, cim |-> c] :
          c \in {"CIM-7", Undefined} }
    \cup { [kind |-> Null], [kind |-> "error"] }

findByExactCPF(outcome) ==
    IF outcome.kind = "error"
    THEN [ok |-> FALSE, value |-> [kind |-> Null],
          error |-> [Error("DatabaseError") EXCEPT
                        !.message = <<"Erro ao buscar parceiro: ", "Error">>]]
    ELSE [ok |-> TRUE, value |-> outcome, error |-> NoError]

(***************************************************************************)
(* Webhook payloads: the elements of req.body.pix.  What a payload claims  *)
(* (status, valor, devedor) is the sender's, not the gateway's.            *)
(***************************************************************************)
ClaimedCPF == "99999999999"
ClaimedNome == "Mallory"
Payload(txid, status, original, nome) ==
    [txid |-> txid,
     status |-> status,
     valor |-> [original |-> original],
     devedor |-> [cpf |-> ClaimedCPF, nome |-> nome]]

\* One payload per transaction id, and one without txid
PlainPayloads ==
    { Payload(t, "CONCLUIDA", "999.00", ClaimedNome) : t \in TxIds \cup {Undefined} }

\* Payloads that differ in what they claim
AllPayloads ==
    { Payload(t, s, v, n) :
          t \in TxIds, s \in {"CONCLUIDA", "ATIVA"},
          v \in {"999.00", "50.00"}, n \in {ClaimedNome, GatewayNome} }

Batches(payloads) ==
    UNION { [1..n -> payloads] : n \in 0..MaxBatch }

(***************************************************************************)
(* DonationService.handlePixWebhook                                        *)
(***************************************************************************)
IdleCall ==
    [pc |-> "idle", rawWebhookPayload |-> NoObject, txId |-> Undefined,
     donation |-> NoDonation,
     details |-> NoObject, prior |-> "none", official |-> "none",
     complete |-> FALSE, writes |-> 0]

\* a JavaScript call's completion: a returned value or a thrown error
Return(v) == [ok |-> TRUE, value |-> v, error |-> NoError]
Throw(e) == [ok |-> FALSE, value |-> NoDonation, error |-> e]

\* obj?.field
Optional(obj, field) == IF obj.kind = Undefined THEN Undefined ELSE obj[field]

\* catchBlock, were every error without `response` wrapped
catchBlockWrapping(error, txId) ==
    IF error.response
    THEN [Error("ExternalError") EXCEPT
             !.message = <<"Erro ao obter detalhes da cobranca Pix: ",
                           error.name>>]
    ELSE [Error("DatabaseError") EXCEPT
             !.message = <<"Erro inesperado ao processar transacao ", txId>>]

\* the catch block of handlePixWebhook: what it throws for a caught error
catchBlock(error, txId) ==
    IF error.name \in {"ValidationError", "NotFoundError", "DatabaseError"}
    THEN error
    ELSE IF error.response
         THEN [Error("ExternalError") EXCEPT
                  !.message = <<"Erro ao obter detalhes da cobranca Pix: ",
                                error.name>>]
         ELSE [Error("DatabaseError") EXCEPT
                  !.message = <<"Erro inesperado ao processar transacao ",
                                txId>>]

\* handlePixWebhookStart, were the txid of the payload not checked
handlePixWebhookStartUnchecked(rawWebhookPayload) ==
    [ok |-> TRUE, error |-> NoError,
     call |-> [IdleCall EXCEPT !.pc = "findByTxId",
                               !.rawWebhookPayload = rawWebhookPayload,
                               !.txId = rawWebhookPayload.txid]]

\* the entry of handlePixWebhook up to the store query it awaits
handlePixWebhookStart(rawWebhookPayload) ==
    LET txId == rawWebhookPayload.txid IN
    IF Falsy(txId)
    THEN [ok |-> FALSE, error |-> Error("ValidationError"), call |-> IdleCall]
    ELSE [ok |-> TRUE, error |-> NoError,
          call |-> [IdleCall EXCEPT !.pc = "findByTxId",
                                    !.rawWebhookPayload = rawWebhookPayload,
                                    !.txId = txId]]

\* the payer data lazy creation needs, as handlePixWebhook reads it
donorCPFFromEfi(efiChargeDetails) == Optional(efiChargeDetails.devedor, "cpf")
donorNameFromEfi(efiChargeDetails) == Optional(efiChargeDetails.devedor, "nome")
amountFromEfi(efiChargeDetails) == parseFloat(efiChargeDetails.valor.original)

\* const isPaymentConfirmed = officialStatus === "CONCLUIDA"
isPaymentConfirmed(efiChargeDetails) == efiChargeDetails.status = "CONCLUIDA"

\* decide, were a record written whenever the gateway has not confirmed
decideRewriting(donation, efiChargeDetails) ==
    LET officialStatus == efiChargeDetails.status IN
    IF isPaymentConfirmed(efiChargeDetails)
    THEN IF donation.kind # Null
         THEN IF donation.status # "PAGA"
              THEN [next |-> "save", error |-> NoError,
                    donation |-> [donation EXCEPT !.status = "PAGA"]]
              ELSE [next |-> "return", error |-> NoError, donation |-> donation]
         ELSE IF \/ Falsy(donorCPFFromEfi(efiChargeDetails))
                 \/ Falsy(donorNameFromEfi(efiChargeDetails))
                 \/ Falsy(amountFromEfi(efiChargeDetails))
              THEN [next |-> "throw", error |-> Error("ValidationError"),
                    donation |-> donation]
              ELSE [next |-> "findByExactCPF", error |-> NoError,
                    donation |-> donation]
    ELSE IF donation.kind # Null
         THEN [next |-> "save", error |-> NoError,
               donation |-> [donation EXCEPT !.status = officialStatus]]
         ELSE [next |-> "return", error |-> NoError, donation |-> NoDonation]

\* decide, were a confirmation of a record already PAGA to save it again
decideResaving(donation, efiChargeDetails) ==
    LET officialStatus == efiChargeDetails.status IN
    IF isPaymentConfirmed(efiChargeDetails)
    THEN IF donation.kind # Null
         THEN [next |-> "save", error |-> NoError,
               donation |-> [donation EXCEPT !.status = "PAGA"]]
         ELSE IF \/ Falsy(donorCPFFromEfi(efiChargeDetails))
                 \/ Falsy(donorNameFromEfi(efiChargeDetails))
                 \/ Falsy(amountFromEfi(efiChargeDetails))
              THEN [next |-> "throw", error |-> Error("ValidationError"),
                    donation |-> donation]
              ELSE [next |-> "findByExactCPF", error |-> NoError,
                    donation |-> donation]
    ELSE IF donation.kind # Null
         THEN IF donation.status # officialStatus
              THEN [next |-> "save", error |-> NoError,
                    donation |-> [donation EXCEPT !.status = officialStatus]]
              ELSE [next |-> "return", error |-> NoError, donation |-> donation]
         ELSE [next |-> "return", error |-> NoError, donation |-> NoDonation]

\* decide, were lazy creation not to ask for the payer name
decideWithoutName(donation, efiChargeDetails) ==
    LET officialStatus == efiChargeDetails.status IN
    IF isPaymentConfirmed(efiChargeDetails)
    THEN IF donation.kind # Null
         THEN IF donation.status # "PAGA"
              THEN [next |-> "save", error |-> NoError,
                    donation |-> [donation EXCEPT !.status = "PAGA"]]
              ELSE [next |-> "return", error |-> NoError, donation |-> donation]
         ELSE IF \/ Falsy(donorCPFFromEfi(efiChargeDetails))
                 \/ Falsy(amountFromEfi(efiChargeDetails))
              THEN [next |-> "throw", error |-> Error("ValidationError"),
                    donation |-> donation]
              ELSE [next |-> "findByExactCPF", error |-> NoError,
                    donation |-> donation]
    ELSE IF donation.kind # Null
         THEN IF donation.status # officialStatus
              THEN [next |-> "save", error |-> NoError,
                    donation |-> [donation EXCEPT !.status = officialStatus]]
              ELSE [next |-> "return", error |-> NoError, donation |-> donation]
         ELSE [next |-> "return", error |-> NoError, donation |-> NoDonation]

\* decide, were an unconfirmed charge without a record to be materialized
decideMaterializing(donation, efiChargeDetails) ==
    LET officialStatus == efiChargeDetails.status IN
    IF isPaymentConfirmed(efiChargeDetails)
    THEN IF donation.kind # Null
         THEN IF donation.status # "PAGA"
              THEN [next |-> "save", error |-> NoError,
                    donation |-> [donation EXCEPT !.status = "PAGA"]]
              ELSE [next |-> "return", error |-> NoError, donation |-> donation]
         ELSE IF \/ Falsy(donorCPFFromEfi(efiChargeDetails))
                 \/ Falsy(donorNameFromEfi(efiChargeDetails))
                 \/ Falsy(amountFromEfi(efiChargeDetails))
              THEN [next |-> "throw", error |-> Error("ValidationError"),
                    donation |-> donation]
              ELSE [next |-> "findByExactCPF", error |-> NoError,
                    donation |-> donation]
    ELSE IF donation.kind # Null
         THEN IF donation.status # officialStatus
              THEN [next |-> "save", error |-> NoError,
                    donation |-> [donation EXCEPT !.status = officialStatus]]
              ELSE [next |-> "return", error |-> NoError, donation |-> donation]
         ELSE [next |-> "findByExactCPF", error |-> NoError,
               donation |-> donation]

\* The decision taken once the gateway has answered: which operation the
\* handler goes on to ("save", "findByExactCPF"), or how it ends ("return",
\* "throw"), with the donation object as the branch leaves it.
decide(donation, efiChargeDetails) ==
    LET officialStatus == efiChargeDetails.status IN
    IF isPaymentConfirmed(efiChargeDetails)
    THEN IF donation.kind # Null
         THEN IF donation.status # "PAGA"
              THEN [next |-> "save", error |-> NoError,
                    donation |-> [donation EXCEPT !.status = "PAGA"]]
              ELSE [next |-> "return", error |-> NoError, donation |-> donation]
         ELSE IF \/ Falsy(donorCPFFromEfi(efiChargeDetails))
                 \/ Falsy(donorNameFromEfi(efiChargeDetails))
                 \/ Falsy(amountFromEfi(efiChargeDetails))
              THEN [next |-> "throw", error |-> Error("ValidationError"),
                    donation |-> donation]
              ELSE [next |-> "findByExactCPF", error |-> NoError,
                    donation |-> donation]
    ELSE IF donation.kind # Null
         THEN IF donation.status # officialStatus
              THEN [next |-> "save", error |-> NoError,
                    donation |-> [donation EXCEPT !.status = officialStatus]]
              ELSE [next |-> "return", error |-> NoError, donation |-> donation]
         ELSE [next |-> "return", error |-> NoError, donation |-> NoDonation]

\* newDonation, were the record created as a charge awaiting payment
newDonationAwaiting(efiChargeDetails, existsPartner) ==
    LET donorCIM == IF existsPartner.kind # Null /\ ~Falsy(existsPartner.cim)
                    THEN existsPartner.cim ELSE Null
    IN Donation([id |-> Undefined,
                 donorCPF |-> donorCPFFromEfi(efiChargeDetails),
                 donorName |-> donorNameFromEfi(efiChargeDetails),
                 donorCIM |-> donorCIM,
                 amount |-> amountFromEfi(efiChargeDetails),
                 txId |-> efiChargeDetails.txid,
                 locId |-> Optional(efiChargeDetails.loc, "id"),
                 qrCode |-> efiChargeDetails.location,
                 copyPaste |-> efiChargeDetails.pixCopiaECola,
                 status |-> "AGUARDANDO_PAGAMENTO",
                 createdAt |-> ServerTimestampSentinel])

\* newDonation, were the donor's name taken from the registry
newDonationFromRegistry(efiChargeDetails, existsPartner) ==
    LET donorCIM == IF existsPartner.kind # Null /\ ~Falsy(existsPartner.cim)
                    THEN existsPartner.cim ELSE Null
    IN Donation([id |-> Undefined,
                 donorCPF |-> donorCPFFromEfi(efiChargeDetails),
                 donorName |-> IF existsPartner.kind # Null
                               THEN existsPartner.name
                               ELSE donorNameFromEfi(efiChargeDetails),
                 donorCIM |-> donorCIM,
                 amount |-> amountFromEfi(efiChargeDetails),
                 txId |-> efiChargeDetails.txid,
                 locId |-> Optional(efiChargeDetails.loc, "id"),
                 qrCode |-> efiChargeDetails.location,
                 copyPaste |-> efiChargeDetails.pixCopiaECola,
                 status |-> "PAGA",
                 createdAt |-> ServerTimestampSentinel])

\* new DonationModel({...}) of the lazy creation
newDonation(efiChargeDetails, existsPartner) ==
    LET donorCIM == IF existsPartner.kind # Null /\ ~Falsy(existsPartner.cim)
                    THEN existsPartner.cim ELSE Null
    IN Donation([id |-> Undefined,
                 donorCPF |-> donorCPFFromEfi(efiChargeDetails),
                 donorName |-> donorNameFromEfi(efiChargeDetails),
                 donorCIM |-> donorCIM,
                 amount |-> amountFromEfi(efiChargeDetails),
                 txId |-> efiChargeDetails.txid,
                 locId |-> Optional(efiChargeDetails.loc, "id"),
                 qrCode |-> efiChargeDetails.location,
                 copyPaste |-> efiChargeDetails.pixCopiaECola,
                 status |-> "PAGA",
                 createdAt |-> ServerTimestampSentinel])

\* whether the gateway's answer holds the payer data and the amount
PayerDataComplete(efiChargeDetails) ==
    /\ efiChargeDetails.devedor.kind # Undefined
    /\ efiChargeDetails.devedor.cpf # Undefined
    /\ efiChargeDetails.devedor.nome # Undefined
    /\ efiChargeDetails.valor.original # Undefined

\* how DonationService.findByTxId may settle
findByTxIdSettles(docs, txId, dbOk) ==
    IF dbOk THEN { Return(d) : d \in findByTxId(docs, txId) }
    ELSE { Throw([Error("DatabaseError") EXCEPT
                     !.message = <<"Erro ao buscar doacao por TxId: ", "Error">>]) }

\* how this.save() settles: the store and the object afterwards
save(this, docs, dbOk, now) ==
    IF dbOk
    THEN [ok |-> TRUE, error |-> NoError,
          docs |-> saveDocs(this, docs, now),
          this |-> [this EXCEPT !.id = savedId(this, docs)]]
    ELSE [ok |-> FALSE,
          error |-> [Error("DatabaseError") EXCEPT
                        !.message = <<"Erro ao salvar a doacao: ", "Error">>],
          docs |-> docs, this |-> this]

\* A step of the call: it goes on to its next await, or ends with a result
GoesOn(c) == [call |-> c, done |-> FALSE, result |-> Return(NoDonation)]
Ends(c, result) == [call |-> c, done |-> TRUE, result |-> result]

\* handlePixWebhook after `await DonationService.findByTxId(txId)`, which is
\* outside the try block: what it throws leaves the handler as it is
afterFindByTxId(c, settled) ==
    IF ~settled.ok THEN Ends(c, settled)
    ELSE GoesOn([c EXCEPT !.pc = "getPixDetails",
                          !.donation = settled.value,
                          !.prior = IF settled.value.kind = Null
                                    THEN "none" ELSE settled.value.status])

\* afterGetPixDetails, were a failed details call issued once more
afterGetPixDetailsRetrying(c, settled) ==
    IF ~settled.ok
    THEN IF c.official = "none" THEN GoesOn([c EXCEPT !.official = "failed"])
         ELSE Ends(c, Throw(catchBlock(settled.error, c.txId)))
    ELSE IF settled.value.valor.kind = Undefined
    THEN Ends([c EXCEPT !.official = settled.value.status],
              Throw(catchBlock(Error("TypeError"), c.txId)))
    ELSE LET efiChargeDetails == settled.value
             d == decide(c.donation, efiChargeDetails)
             c1 == [c EXCEPT !.official = efiChargeDetails.status,
                             !.complete = PayerDataComplete(efiChargeDetails),
                             !.donation = d.donation]
         IN CASE d.next = "throw" -> Ends(c1, Throw(catchBlock(d.error, c.txId)))
              [] d.next = "return" -> Ends(c1, Return(d.donation))
              [] d.next = "save" -> GoesOn([c1 EXCEPT !.pc = "save"])
              [] d.next = "findByExactCPF" ->
                   GoesOn([c1 EXCEPT !.pc = "findByExactCPF",
                                     !.details = efiChargeDetails])

\* afterGetPixDetails, were the status read from the webhook payload
afterGetPixDetailsTrusting(c, settled) ==
    IF ~settled.ok THEN Ends(c, Throw(catchBlock(settled.error, c.txId)))
    ELSE IF settled.value.valor.kind = Undefined
    THEN Ends([c EXCEPT !.official = settled.value.status],
              Throw(catchBlock(Error("TypeError"), c.txId)))
    ELSE LET efiChargeDetails ==
                 [settled.value EXCEPT !.status = c.rawWebhookPayload.status]
             d == decide(c.donation, efiChargeDetails)
             c1 == [c EXCEPT !.official = settled.value.status,
                             !.complete = PayerDataComplete(efiChargeDetails),
                             !.donation = d.donation]
         IN CASE d.next = "throw" -> Ends(c1, Throw(catchBlock(d.error, c.txId)))
              [] d.next = "return" -> Ends(c1, Return(d.donation))
              [] d.next = "save" -> GoesOn([c1 EXCEPT !.pc = "save"])
              [] d.next = "findByExactCPF" ->
                   GoesOn([c1 EXCEPT !.pc = "findByExactCPF",
                                     !.details = efiChargeDetails])

\* handlePixWebhook after `await pixService.getPixDetails(txId)`
afterGetPixDetails(c, settled) ==
    IF ~settled.ok THEN Ends(c, Throw(catchBlock(settled.error, c.txId)))
    ELSE IF settled.value.valor.kind = Undefined
    THEN Ends([c EXCEPT !.official = settled.value.status],
              Throw(catchBlock(Error("TypeError"), c.txId)))
    ELSE LET efiChargeDetails == settled.value
             d == decide(c.donation, efiChargeDetails)
             c1 == [c EXCEPT !.official = efiChargeDetails.status,
                             !.complete = PayerDataComplete(efiChargeDetails),
                             !.donation = d.donation]
         IN CASE d.next = "throw" -> Ends(c1, Throw(catchBlock(d.error, c.txId)))
              [] d.next = "return" -> Ends(c1, Return(d.donation))
              [] d.next = "save" -> GoesOn([c1 EXCEPT !.pc = "save"])
              [] d.next = "findByExactCPF" ->
                   GoesOn([c1 EXCEPT !.pc = "findByExactCPF",
                                     !.details = efiChargeDetails])

\* handlePixWebhook after `await PartnerService.findByExactCPF(...)`
afterFindByExactCPF(c, settled) ==
    IF ~settled.ok THEN Ends(c, Throw(catchBlock(settled.error, c.txId)))
    ELSE GoesOn([c EXCEPT !.pc = "save",
                          !.donation = newDonation(c.details, settled.value),
                          !.details = NoObject])

\* afterSave, were the donation returned whether or not it was written
afterSaveSwallowing(c, saved) ==
    IF ~saved.ok THEN Ends(c, Return(c.donation))
    ELSE Ends([c EXCEPT !.writes = @ + 1, !.donation = saved.this],
              Return(saved.this))

\* handlePixWebhook after `await donation.save()` / `await newDonation.save()`
afterSave(c, saved) ==
    IF ~saved.ok THEN Ends(c, Throw(catchBlock(saved.error, c.txId)))
    ELSE Ends([c EXCEPT !.writes = @ + 1, !.donation = saved.this],
              Return(saved.this))

(***************************************************************************)
(* SSEService.notifyDonationPaid                                           *)
(***************************************************************************)
NoClient == [kind |-> Undefined]

\* a field of an object literal: undefined when the literal has no such key
Field(obj, key) == IF key \in DOMAIN obj THEN obj[key] ELSE Undefined

\* a || b on the values the model uses (time values are records)
OrElse(a, b) == IF a \in {Undefined, Null, NaN, "0", ""} THEN b ELSE a

\* the donationPaid event written for one element of the batch
eventData(donation) ==
    [type |-> "donationPaid",
     txid |-> Field(donation, "txId"),
     valor |-> OrElse(Field(donation, "amount"), Field(donation, "valor")),
     pagador |-> OrElse(Field(donation, "donorName"),
                        OrElse(Field(donation, "infoPagador"), "Desconhecido")),
     horario |-> IF "createdAt" \in DOMAIN donation
                 THEN donation.createdAt ELSE Field(donation, "horario"),
     status |-> Field(donation, "status")]

\* notifyDonationPaid, were an event without a registered client to be
\* written to the connections opened for its txid
RECURSIVE notifyDonationPaidUnregistered(_, _, _)
notifyDonationPaidUnregistered(donationList, cl, cn) ==
    IF donationList = <<>> THEN cn
    ELSE LET donation == Head(donationList)
             client == cl[donation.txid]
             written == IF client.kind = Undefined
                        THEN [c \in DOMAIN cn |->
                                 IF cn[c].txId = donation.txid
                                 THEN [cn[c] EXCEPT !.events =
                                          Append(@, eventData(donation))]
                                 ELSE cn[c]]
                        ELSE [cn EXCEPT ![client.conn].events =
                                  Append(@, eventData(donation))]
         IN notifyDonationPaidUnregistered(Tail(donationList), cl, written)

\* notifyDonationPaid, were every event written to every registered client
RECURSIVE notifyDonationPaidBroadcast(_, _, _)
notifyDonationPaidBroadcast(donationList, cl, cn) ==
    IF donationList = <<>> THEN cn
    ELSE LET donation == Head(donationList)
             registered == { cl[t].conn : t \in { u \in DOMAIN cl :
                                                     cl[u].kind # Undefined } }
             written == [c \in DOMAIN cn |->
                            IF c \in registered
                            THEN [cn[c] EXCEPT !.events =
                                     Append(@, eventData(donation))]
                            ELSE cn[c]]
         IN notifyDonationPaidBroadcast(Tail(donationList), cl, written)

\* notifyDonationPaid, were the loop left at the first donation without a
\* registered client
RECURSIVE notifyDonationPaidStopping(_, _, _)
notifyDonationPaidStopping(donationList, cl, cn) ==
    IF donationList = <<>> THEN cn
    ELSE LET donation == Head(donationList)
             client == cl[donation.txid]
         IN IF client.kind = Undefined THEN cn
            ELSE notifyDonationPaidStopping(
                     Tail(donationList), cl,
                     [cn EXCEPT ![client.conn].events =
                         Append(@, eventData(donation))])

\* the connections after donations.forEach(...)
RECURSIVE notifyDonationPaid(_, _, _)
notifyDonationPaid(donationList, cl, cn) ==
    IF donationList = <<>> THEN cn
    ELSE LET donation == Head(donationList)
             client == cl[donation.txid]
             written == IF client.kind = Undefined THEN cn
                        ELSE [cn EXCEPT ![client.conn].events =
                                  Append(@, eventData(donation))]
         IN notifyDonationPaid(Tail(donationList), cl, written)

(***************************************************************************)
(* router.post("/pix")                                                     *)
(***************************************************************************)
NoResponse == [status |-> "none", text |-> "none",
               successfulProcesses |-> 0, failedTxIds |-> <<>>]

IdleRouter ==
    [busy |-> FALSE, batch |-> <<>>, idx |-> 1, successfulProcesses |-> 0,
     failedTxIds |-> <<>>, processedDonationsForSSE |-> <<>>,
     response |-> NoResponse, notified |-> <<>>]

\* afterCall, were a failing element to end the loop
afterCallAborting(r, txId, result) ==
    IF result.ok
    THEN LET donation == result.value IN
         [r EXCEPT
            !.processedDonationsForSSE =
                IF donation.kind # Null /\ donation.status = "PAGA"
                THEN Append(@, [txid |-> donation.txId,
                                valor |-> donation.amount,
                                pagador |-> donation.donorName,
                                horario |-> donation.createdAt,
                                status |-> donation.status])
                ELSE @,
            !.successfulProcesses = @ + 1,
            !.idx = @ + 1]
    ELSE [r EXCEPT !.failedTxIds = Append(@, txId), !.idx = Len(r.batch) + 1]

\* the body of the for loop after handlePixWebhook has returned or thrown
afterCall(r, txId, result) ==
    IF result.ok
    THEN LET donation == result.value IN
         [r EXCEPT
            !.processedDonationsForSSE =
                IF donation.kind # Null /\ donation.status = "PAGA"
                THEN Append(@, [txid |-> donation.txId,
                                valor |-> donation.amount,
                                pagador |-> donation.donorName,
                                horario |-> donation.createdAt,
                                status |-> donation.status])
                ELSE @,
            !.successfulProcesses = @ + 1,
            !.idx = @ + 1]
    ELSE [r EXCEPT !.failedTxIds = Append(@, txId), !.idx = @ + 1]

\* forLoop, were an element without txid passed on like the others
RECURSIVE forLoopWithoutSkip(_)
forLoopWithoutSkip(r) ==
    IF r.idx > Len(r.batch) THEN [router |-> r, call |-> IdleCall]
    ELSE LET pixPayload == r.batch[r.idx]
             txId == pixPayload.txid
             start == handlePixWebhookStart(pixPayload)
         IN IF start.ok THEN [router |-> r, call |-> start.call]
            ELSE forLoopWithoutSkip(afterCall(r, txId, Throw(start.error)))

\* The for loop from the top of an iteration to the next await: elements
\* without txid are skipped; `call` is the handlePixWebhook call then in
\* flight, or IdleCall when the loop is over.
RECURSIVE forLoop(_)
forLoop(r) ==
    IF r.idx > Len(r.batch) THEN [router |-> r, call |-> IdleCall]
    ELSE LET pixPayload == r.batch[r.idx]
             txId == pixPayload.txid
         IN IF Falsy(txId) THEN forLoop([r EXCEPT !.idx = @ + 1])
            ELSE LET start == handlePixWebhookStart(pixPayload) IN
                 IF start.ok THEN [router |-> r, call |-> start.call]
                 ELSE forLoop(afterCall(r, txId, Throw(start.error)))

\* the response sent after the loop
respond(r) ==
    [status |-> "200",
     text |-> IF r.successfulProcesses > 0 /\ r.failedTxIds = <<>>
              THEN "processed"
              ELSE IF r.successfulProcesses > 0 /\ r.failedTxIds # <<>>
                   THEN "partial"
                   ELSE "none valid or all failed",
     successfulProcesses |-> r.successfulProcesses,
     failedTxIds |-> r.failedTxIds]

\* The router from the top of a loop iteration on: either the next
\* handlePixWebhook call is in flight, or the loop is over, the hub has been
\* notified and the response sent.  `notified` keeps what the finished
\* request passed to sseService.notifyDonationPaid (<<>>: it made no call).
RouterGoesOn(w, r) ==
    LET loop == forLoop(r) IN
    /\ hw' = [hw EXCEPT ![w] = loop.call]
    /\ IF loop.call.pc # "idle"
       THEN /\ router' = [router EXCEPT ![w] = loop.router]
            /\ conns' = conns
       ELSE /\ router' = [router EXCEPT ![w] =
                              [IdleRouter EXCEPT
                                  !.response = respond(loop.router),
                                  !.notified =
                                      loop.router.processedDonationsForSSE]]
            /\ conns' = IF Len(loop.router.processedDonationsForSSE) > 0
                        THEN notifyDonationPaid(
                                 loop.router.processedDonationsForSSE,
                                 clients, conns)
                        ELSE conns

\* What the history keeps of a completed handlePixWebhook call: its txId,
\* the status of the record its lookup found ("none": no record), the status
\* the gateway reported ("none": no answer), whether that answer held the
\* payer data, the store writes it made, how it ended, and whether the call
\* completed just before it was a first confirmation of the same txId.
FirstConfirmation(call) ==
    /\ call.prior = "none"
    /\ call.official = "CONCLUIDA"
    /\ call.complete
    /\ call.outcome = "donation"

Summary(c, result, before) ==
    [txId |-> c.txId, prior |-> c.prior, official |-> c.official,
     complete |-> c.complete, writes |-> c.writes,
     outcome |-> IF ~result.ok THEN result.error.name
                 ELSE IF result.value.kind = Null THEN Null ELSE "donation",
     message |-> result.error.message,
     replay |-> FirstConfirmation(before) /\ before.txId = c.txId]

NoCall ==
    [txId |-> Undefined, prior |-> "none", official |-> "none",
     complete |-> FALSE, writes |-> 0, outcome |-> Null, message |-> <<>>,
     replay |-> FALSE]

\* handlePixWebhook call c of request w completes with `result`
Completes(w, c, result) ==
    /\ lastCall' = Summary(c, result, lastCall)
    /\ observed' = observed \cup {c.txId}
    /\ RouterGoesOn(w, afterCall(router[w], c.txId, result))

\* POST /api/webhook/pix arrives
RouterStart(w, body) ==
    /\ ~router[w].busy
    /\ started < MaxRequests
    /\ started' = started + 1
    /\ UNCHANGED <<donations, clients, cd, observed, lastCall, twin,
                   efiAuth>>
    /\ IF ~body.isArray \/ Len(body.pix) = 0
       THEN /\ router' = [router EXCEPT ![w] =
                   [IdleRouter EXCEPT !.response =
                       [NoResponse EXCEPT !.status = "200",
                                          !.text = "nothing processed"]]]
            /\ UNCHANGED <<hw, conns>>
       ELSE RouterGoesOn(w, [IdleRouter EXCEPT !.busy = TRUE,
                                               !.batch = body.pix])

\* the bodies a request may carry
Bodies(payloads) ==
    { [isArray |-> TRUE, pix |-> b] : b \in Batches(payloads) }
    \cup { [isArray |-> FALSE, pix |-> <<>>] }

(***************************************************************************)
(* The steps of a handlePixWebhook call in flight                          *)
(***************************************************************************)
\* request w's call takes the step s
Advance(w, s) ==
    IF s.done THEN Completes(w, s.call, s.result)
    ELSE /\ hw' = [hw EXCEPT ![w] = s.call]
         /\ UNCHANGED <<router, conns, observed, lastCall>>

\* handlePixWebhook(rawWebhookPayload) is called for request w, up to its
\* first await: it throws at once, or its caller awaits it as the router's
\* loop awaits the call for an element
handlePixWebhookCalled(w, rawWebhookPayload) ==
    /\ ~router[w].busy
    /\ started < MaxRequests
    /\ started' = started + 1
    /\ UNCHANGED <<donations, clients, conns, cd, observed, twin, efiAuth>>
    /\ LET start == handlePixWebhookStart(rawWebhookPayload) IN
       IF start.ok
       THEN /\ hw' = [hw EXCEPT ![w] = start.call]
            /\ router' = [router EXCEPT ![w] =
                             [IdleRouter EXCEPT
                                 !.busy = TRUE,
                                 !.batch = <<rawWebhookPayload>>]]
            /\ lastCall' = lastCall
       ELSE /\ lastCall' = Summary(start.call, Throw(start.error), lastCall)
            /\ UNCHANGED <<hw, router>>

\* await DonationService.findByTxId(txId) settles
FindByTxIdDone(w, dbOk) ==
    /\ hw[w].pc = "findByTxId"
    /\ UNCHANGED <<donations, clients, cd, started, twin,
                   efiAuth>>
    /\ \E settled \in findByTxIdSettles(donations, hw[w].txId, dbOk) :
           Advance(w, afterFindByTxId(hw[w], settled))

\* await pixService.getPixDetails(txId) settles
GetPixDetailsDone(w, sdk) ==
    /\ hw[w].pc = "getPixDetails"
    /\ UNCHANGED <<donations, clients, cd, started, twin,
                   efiAuth>>
    /\ Advance(w, afterGetPixDetails(hw[w], getPixDetails(sdk)))

\* await PartnerService.findByExactCPF(donorCPFFromEfi) settles
FindByExactCPFDone(w, outcome) ==
    /\ hw[w].pc = "findByExactCPF"
    /\ UNCHANGED <<donations, clients, cd, started, twin,
                   efiAuth>>
    /\ Advance(w, afterFindByExactCPF(hw[w], findByExactCPF(outcome)))

\* await donation.save() settles
SaveDone(w, dbOk, now) ==
    /\ hw[w].pc = "save"
    /\ UNCHANGED <<clients, cd, started, twin,
                   efiAuth>>
    /\ LET saved == save(hw[w].donation, donations, dbOk, now) IN
       /\ donations' = saved.docs
       /\ Advance(w, afterSave(hw[w], saved))

(***************************************************************************)
(* SSEService.addClient and the close handler it installs                  *)
(***************************************************************************)
\* addClient, were an earlier subscription of the txId to be kept
addClientKeepingFirst(txId) ==
    /\ started < MaxRequests
    /\ started' = started + 1
    /\ conns' = Append(conns, [txId |-> txId, open |-> TRUE,
                               keepAlive |-> TRUE, pings |-> 0,
                               events |-> <<>>])
    /\ clients' = IF clients[txId].kind = Undefined
                  THEN [clients EXCEPT ![txId] =
                           [kind |-> "client", conn |-> Len(conns) + 1]]
                  ELSE clients
    /\ UNCHANGED <<donations, hw, router, cd, observed, lastCall, twin,
                   efiAuth>>

addClient(txId) ==
    /\ started < MaxRequests
    /\ started' = started + 1
    /\ conns' = Append(conns, [txId |-> txId, open |-> TRUE,
                               keepAlive |-> TRUE, pings |-> 0,
                               events |-> <<>>])
    /\ clients' = [clients EXCEPT ![txId] =
                      [kind |-> "client", conn |-> Len(conns) + 1]]
    /\ UNCHANGED <<donations, hw, router, cd, observed, lastCall, twin,
                   efiAuth>>

\* OnClose, were the connection left in the registry
OnCloseKeepingClient(c) ==
    /\ c \in DOMAIN conns
    /\ conns[c].open
    /\ conns' = [conns EXCEPT ![c].open = FALSE, ![c].keepAlive = FALSE]
    /\ UNCHANGED <<donations, hw, router, clients, cd, observed, lastCall,
                   started, twin, efiAuth>>

\* OnClose, were the keep-alive timer left running
OnCloseKeepingTimer(c) ==
    /\ c \in DOMAIN conns
    /\ conns[c].open
    /\ conns' = [conns EXCEPT ![c].open = FALSE]
    /\ clients' = [clients EXCEPT ![conns[c].txId] = NoClient]
    /\ UNCHANGED <<donations, hw, router, cd, observed, lastCall, started,
                   twin,
                   efiAuth>>

OnClose(c) ==
    /\ c \in DOMAIN conns
    /\ conns[c].open
    /\ conns' = [conns EXCEPT ![c].open = FALSE, ![c].keepAlive = FALSE]
    /\ clients' = [clients EXCEPT ![conns[c].txId] = NoClient]
    /\ UNCHANGED <<donations, hw, router, cd, observed, lastCall, started,
                   twin,
                   efiAuth>>

\* the setInterval callback of connection c fires: res.write(": ping\n\n")
OnKeepAlive(c) ==
    /\ c \in DOMAIN conns
    /\ conns[c].keepAlive
    /\ conns[c].pings < MaxPings
    /\ conns' = [conns EXCEPT ![c].pings = @ + 1]
    /\ UNCHANGED <<donations, hw, router, clients, cd, observed, lastCall,
                   started, twin,
                   efiAuth>>

(***************************************************************************)
(* PixService.createImmediatePixCharge and DonationService.createDonation  *)
(***************************************************************************)
\* parseFloat(amount) <= 0 on the numbers the model uses
NotPositive(n) == n \in {"0", "-5"}

\* donorCPF.replace(/\D/g, "") on the tax ids the model uses
cleanCPF(donorCPF) ==
    CASE donorCPF = "123.456.789-01" -> "12345678901"
      [] OTHER -> donorCPF

\* cleanedCPF.length
cpfLength(cleanedCPF) == IF cleanedCPF = "12345678901" THEN 11 ELSE 3

\* what the request body of POST /doacoes/gerar may carry
ChargeInputs ==
    { [donorCPF |-> c, amount |-> a] :
          c \in {Undefined, "123.456.789-01", "123"},
          a \in {Undefined, "50", "0", "-5"} }

\* what efi.pixCreateCharge may answer for the charge it creates under txid t
CreateResponses(t) ==
    { [kind |-> "response",
       data |-> [txid |-> t,
                 loc |-> l,
                 location |-> q,
                 pixCopiaECola |-> e,
                 calendario |-> k]] :
          l \in {NoObject, [kind |-> "object", id |-> GatewayLocId(t)]},
          q \in {Undefined, GatewayLocation(t)},
          e \in {Undefined, GatewayCopiaECola(t)},
          k \in {NoObject, [kind |-> "object", criacao |-> "2025-01-01T00:00:00Z"]} }

\* what efi.pixCreateCharge may settle with
SdkCreateOutcomes ==
    UNION { CreateResponses(t) : t \in TxIds } \cup { [kind |-> "reject"] }

\* createImmediatePixCharge, were the extracted fields not checked
createImmediatePixChargeUnchecked(sdk) ==
    IF sdk.kind = "reject" THEN Throw(Error("ExternalError"))
    ELSE LET chargeResponse == sdk.data
         IN IF chargeResponse.loc.kind = Undefined
               \/ chargeResponse.calendario.kind = Undefined
            THEN Throw(Error("ExternalError"))
            ELSE Return([kind |-> "charge",
                         txId |-> chargeResponse.txid,
                         locId |-> chargeResponse.loc,
                         qrCode |-> chargeResponse.location,
                         copyPaste |-> chargeResponse.pixCopiaECola,
                         createdAt |-> chargeResponse.calendario])

createImmediatePixCharge(sdk) ==
    IF sdk.kind = "reject" THEN Throw(Error("ExternalError"))
    ELSE LET chargeResponse == sdk.data
             txId == chargeResponse.txid
         IN \* loc || loc.id and calendario || calendario.criacao: the right
            \* operand is read only when the left is undefined, and then throws
            IF chargeResponse.loc.kind = Undefined
               \/ chargeResponse.calendario.kind = Undefined
            THEN Throw(Error("ExternalError"))
            ELSE IF \/ Falsy(txId)
                    \/ Falsy(chargeResponse.location)
                    \/ Falsy(chargeResponse.pixCopiaECola)
                 THEN Throw(Error("ExternalError"))
                 ELSE Return([kind |-> "charge",
                              txId |-> txId,
                              locId |-> chargeResponse.loc,
                              qrCode |-> chargeResponse.location,
                              copyPaste |-> chargeResponse.pixCopiaECola,
                              createdAt |-> chargeResponse.calendario])

NoResult == [ok |-> TRUE, value |-> [kind |-> Undefined], error |-> NoError]

\* err.statusCode, as the constructors of Errors.js set it
statusCode(err) ==
    CASE err.name = "NotFoundError"   -> 404
      [] err.name = "ValidationError" -> 409
      [] err.name = "DatabaseError"   -> 500
      [] err.name = "ExternalError"   -> 502
      [] OTHER                        -> 0

\* router.post("/gerar") answers what createDonation ended with: 201 with the
\* charge, or next(error), which the application's error middleware answers
\* with err.statusCode || 500
gerar(result) ==
    IF result.ok THEN 201
    ELSE IF statusCode(result.error) # 0 THEN statusCode(result.error) ELSE 500

IdleCreate ==
    [pc |-> "idle", donorCPF |-> Undefined, amount |-> Undefined,
     cleanedCPF |-> Undefined, donorName |-> Undefined, donorCIM |-> Undefined,
     result |-> NoResult, status |-> 0]

\* createDonation ends: the call's result is what the route sees and answers
createDonationEnds(result) ==
    cd' = [IdleCreate EXCEPT !.result = result, !.status = gerar(result)]

\* createDonationStart, were the length of the cleaned tax id not checked
createDonationStartAnyLength(data) ==
    /\ cd.pc = "idle"
    /\ started < MaxRequests
    /\ started' = started + 1
    /\ UNCHANGED <<donations, hw, router, clients, conns, observed, lastCall,
                   twin,
                   efiAuth>>
    /\ LET donorCPF == data.donorCPF
           amount == data.amount
       IN IF Falsy(donorCPF) \/ Falsy(amount)
          THEN createDonationEnds(Throw(Error("ValidationError")))
          ELSE IF NotPositive(parseFloat(amount))
               THEN createDonationEnds(Throw(Error("ValidationError")))
               ELSE cd' = [IdleCreate EXCEPT
                              !.pc = "findByExactCPF",
                              !.donorCPF = donorCPF,
                              !.amount = amount,
                              !.cleanedCPF = cleanCPF(donorCPF)]

\* createDonation(data) up to the registry query it awaits
createDonationStart(data) ==
    /\ cd.pc = "idle"
    /\ started < MaxRequests
    /\ started' = started + 1
    /\ UNCHANGED <<donations, hw, router, clients, conns, observed, lastCall,
                   twin,
                   efiAuth>>
    /\ LET donorCPF == data.donorCPF
           amount == data.amount
       IN IF Falsy(donorCPF) \/ Falsy(amount)
          THEN createDonationEnds(Throw(Error("ValidationError")))
          ELSE IF NotPositive(parseFloat(amount))
               THEN createDonationEnds(Throw(Error("ValidationError")))
               ELSE IF cpfLength(cleanCPF(donorCPF)) # 11
                    THEN createDonationEnds(Throw(Error("ValidationError")))
                    ELSE cd' = [IdleCreate EXCEPT
                                   !.pc = "findByExactCPF",
                                   !.donorCPF = donorCPF,
                                   !.amount = amount,
                                   !.cleanedCPF = cleanCPF(donorCPF)]

\* createDonationPartnerDone, were a charge created for any tax id
createDonationPartnerDoneUnregistered(outcome) ==
    /\ cd.pc = "findByExactCPF"
    /\ UNCHANGED <<donations, hw, router, clients, conns, observed, lastCall,
                   started, twin,
                   efiAuth>>
    /\ LET got == findByExactCPF(outcome) IN
       IF ~got.ok THEN createDonationEnds(Throw(got.error))
       ELSE IF got.value.kind = Null
            THEN cd' = [cd EXCEPT !.pc = "createImmediatePixCharge"]
            ELSE cd' = [cd EXCEPT !.pc = "createImmediatePixCharge",
                                  !.donorName = got.value.name,
                                  !.donorCIM = got.value.cim]

\* await PartnerService.findByExactCPF(cleanedCPF) settles
createDonationPartnerDone(outcome) ==
    /\ cd.pc = "findByExactCPF"
    /\ UNCHANGED <<donations, hw, router, clients, conns, observed, lastCall,
                   started, twin,
                   efiAuth>>
    /\ LET got == findByExactCPF(outcome) IN
       IF ~got.ok THEN createDonationEnds(Throw(got.error))
       ELSE IF got.value.kind = Null
            THEN createDonationEnds(Throw(Error("NotFoundError")))
            ELSE cd' = [cd EXCEPT !.pc = "createImmediatePixCharge",
                                  !.donorName = got.value.name,
                                  !.donorCIM = got.value.cim]

\* createDonationChargeDone, were the created charge saved as a donation
createDonationChargeDonePersisting(sdk) ==
    /\ cd.pc = "createImmediatePixCharge"
    /\ UNCHANGED <<hw, router, clients, conns, observed, lastCall, started,
                   twin,
                   efiAuth>>
    /\ LET got == createImmediatePixCharge(sdk) IN
       IF got.ok
       THEN LET pixChargeDetails == got.value
                view == [kind |-> "charge view",
                         donorCPF |-> cd.donorCPF,
                         donorName |-> cd.donorName,
                         donorCIM |-> cd.donorCIM,
                         amount |-> parseFloat(cd.amount),
                         txId |-> pixChargeDetails.txId,
                         locId |-> pixChargeDetails.locId,
                         qrCode |-> pixChargeDetails.qrCode,
                         copyPaste |-> pixChargeDetails.copyPaste,
                         status |-> "AGUARDANDO_PAGAMENTO",
                         createdAt |-> pixChargeDetails.createdAt]
            IN /\ createDonationEnds(Return(view))
               /\ \E now \in ServerTimes :
                     donations' = donations \cup
                         { Document(NewDocId(donations),
                                    [view EXCEPT !.createdAt =
                                                     ServerTimestampSentinel],
                                    now) }
       ELSE /\ donations' = donations
            /\ IF got.error.name \in {"ValidationError", "DatabaseError"}
               THEN createDonationEnds(Throw(got.error))
               ELSE createDonationEnds(Throw(Error("ExternalError")))

\* await pixService.createImmediatePixCharge(...) settles
createDonationChargeDone(sdk) ==
    /\ cd.pc = "createImmediatePixCharge"
    /\ UNCHANGED <<donations, hw, router, clients, conns, observed, lastCall,
                   started, twin,
                   efiAuth>>
    /\ LET got == createImmediatePixCharge(sdk) IN
       IF got.ok
       THEN LET pixChargeDetails == got.value IN
            createDonationEnds(Return(
                [kind |-> "charge view",
                 donorCPF |-> cd.donorCPF,
                 donorName |-> cd.donorName,
                 donorCIM |-> cd.donorCIM,
                 amount |-> parseFloat(cd.amount),
                 txId |-> pixChargeDetails.txId,
                 locId |-> pixChargeDetails.locId,
                 qrCode |-> pixChargeDetails.qrCode,
                 copyPaste |-> pixChargeDetails.copyPaste,
                 status |-> "AGUARDANDO_PAGAMENTO",
                 createdAt |-> pixChargeDetails.createdAt]))
       ELSE IF got.error.name \in {"ValidationError", "DatabaseError"}
            THEN createDonationEnds(Throw(got.error))
            ELSE createDonationEnds(Throw(Error("ExternalError")))

(***************************************************************************)
(* EFIAuth.getToken: the access token the module caches.  Times are in     *)
(* seconds; the clock is seen to advance 30 s at a time.                   *)
(***************************************************************************)
SafetyMargin == 60   \* 60 * 1000 ms
MaxClock == 6        \* times the clock advances in a run

\* expires_in of a token response: 0 when the response holds none
ExpiresIn == {0, 90, 150}

\* what axios.post(tokenUrl, ...) may settle with, n tokens issued before
TokenResponses(n) ==
    { [kind |-> "response", access_token |-> a, expires_in |-> e] :
          a \in {Undefined, "token" \o ToString(n + 1)}, e \in ExpiresIn }
    \cup { [kind |-> "reject", access_token |-> Undefined, expires_in |-> 0] }

\* what the getToken call that ended last ended with: the token returned
\* from the cache ("cached") or from the response ("fresh"), or the error
\* thrown; `calls` counts the getToken calls begun by then
NoReturn ==
    [calls |-> 0, kind |-> "none", token |-> Undefined, expires_in |-> 0]
Returned(calls, kind, token, expires_in) ==
    [calls |-> calls, kind |-> kind, token |-> token, expires_in |-> expires_in]

\* the module's variables at load: no token, no agent (0 stands for null;
\* the n-th agent constructed is n).  `agents` counts the https.Agent objects
\* constructed, `sent` holds the agent of every request sent, and
\* `configured` is how the webhookConfig call that ended last ended.
NoAuth ==
    [accessToken |-> Null, tokenExpiresAt |-> 0, now |-> 0, issued |-> 0,
     pc |-> [w \in Workers |-> "idle"], returned |-> NoReturn,
     httpsAgent |-> 0, agents |-> 0, sent |-> {}, configured |-> "none"]

\* initializeHttpsAgent, were an agent constructed by every call
initializeHttpsAgentAnew(auth) ==
    [auth EXCEPT !.httpsAgent = auth.agents + 1, !.agents = auth.agents + 1]

\* initializeHttpsAgent(): the module's variables afterwards.  new https.Agent
\* stores its options, the certificate being read when a connection is made.
initializeHttpsAgent(auth) ==
    IF auth.httpsAgent # 0 THEN auth
    ELSE [auth EXCEPT !.httpsAgent = auth.agents + 1,
                      !.agents = auth.agents + 1]

\* a request is sent with the options { httpsAgent: httpsAgent }
axiosSends(auth) == [auth EXCEPT !.sent = @ \cup {auth.httpsAgent}]

\* getTokenStart, were the token used up to its expiry
getTokenStartWithoutMargin(w) ==
    /\ efiAuth.pc[w] = "idle"
    /\ started < MaxRequests
    /\ started' = started + 1
    /\ UNCHANGED <<donations, hw, router, clients, conns, cd, observed,
                   lastCall, twin>>
    /\ LET auth == initializeHttpsAgent(efiAuth) IN
       IF auth.accessToken # Null
          /\ auth.now < auth.tokenExpiresAt
       THEN efiAuth' = [auth EXCEPT !.returned =
                           Returned(started + 1, "cached",
                                    auth.accessToken, 0)]
       ELSE efiAuth' = [axiosSends(auth) EXCEPT !.pc[w] = "post"]

\* getToken() of caller w up to the axios.post it awaits
getTokenStart(w) ==
    /\ efiAuth.pc[w] = "idle"
    /\ started < MaxRequests
    /\ started' = started + 1
    /\ UNCHANGED <<donations, hw, router, clients, conns, cd, observed,
                   lastCall, twin>>
    /\ LET auth == initializeHttpsAgent(efiAuth) IN
       IF auth.accessToken # Null
          /\ auth.now < auth.tokenExpiresAt - SafetyMargin
       THEN efiAuth' = [auth EXCEPT !.returned =
                           Returned(started + 1, "cached",
                                    auth.accessToken, 0)]
       ELSE efiAuth' = [axiosSends(auth) EXCEPT !.pc[w] = "post"]

\* getTokenDone, were the cache emptied by a refresh that fails
getTokenDoneClearing(w, response) ==
    /\ efiAuth.pc[w] \in {"post", "config"}
    /\ UNCHANGED <<donations, hw, router, clients, conns, cd, observed,
                   lastCall, started, twin>>
    /\ LET access_token == response.access_token
           expires_in == response.expires_in
           issued == IF access_token # Undefined
                     THEN efiAuth.issued + 1 ELSE efiAuth.issued
       IN IF response.kind = "response"
             /\ ~Falsy(access_token) /\ expires_in # 0
          THEN efiAuth' = [(IF efiAuth.pc[w] = "config"
                            THEN axiosSends(efiAuth) ELSE efiAuth) EXCEPT
                              !.accessToken = access_token,
                              !.tokenExpiresAt = efiAuth.now + expires_in,
                              !.issued = issued,
                              !.pc[w] = IF @ = "config" THEN "put" ELSE "idle",
                              !.returned = Returned(started, "fresh",
                                                    access_token, expires_in)]
          ELSE efiAuth' = [efiAuth EXCEPT
                              !.accessToken = Null,
                              !.tokenExpiresAt = 0,
                              !.issued = issued,
                              !.pc[w] = "idle",
                              !.returned = Returned(started, "ExternalError",
                                                    Undefined, 0),
                              !.configured = IF efiAuth.pc[w] = "config"
                                             THEN "ExternalError" ELSE @]

\* await axios.post(tokenUrl, ...) of caller w settles; when the caller is
\* webhookConfig (pc "config") a token returned is sent on with axios.put, and
\* an error thrown leaves webhookConfig as it is
getTokenDone(w, response) ==
    /\ efiAuth.pc[w] \in {"post", "config"}
    /\ UNCHANGED <<donations, hw, router, clients, conns, cd, observed,
                   lastCall, started, twin>>
    /\ LET access_token == response.access_token
           expires_in == response.expires_in
           issued == IF access_token # Undefined
                     THEN efiAuth.issued + 1 ELSE efiAuth.issued
       IN IF response.kind = "response"
             /\ ~Falsy(access_token) /\ expires_in # 0
          THEN efiAuth' = [(IF efiAuth.pc[w] = "config"
                            THEN axiosSends(efiAuth) ELSE efiAuth) EXCEPT
                              !.accessToken = access_token,
                              !.tokenExpiresAt = efiAuth.now + expires_in,
                              !.issued = issued,
                              !.pc[w] = IF @ = "config" THEN "put" ELSE "idle",
                              !.returned = Returned(started, "fresh",
                                                    access_token, expires_in)]
          ELSE efiAuth' = [efiAuth EXCEPT
                              !.issued = issued,
                              !.pc[w] = "idle",
                              !.returned = Returned(started, "ExternalError",
                                                    Undefined, 0),
                              !.configured = IF efiAuth.pc[w] = "config"
                                             THEN "ExternalError" ELSE @]

\* webhookConfig() of caller w up to its first await that leaves the module:
\* the axios.post of getToken, or its own axios.put when the token is cached
webhookConfigStart(w) ==
    /\ efiAuth.pc[w] = "idle"
    /\ started < MaxRequests
    /\ started' = started + 1
    /\ UNCHANGED <<donations, hw, router, clients, conns, cd, observed,
                   lastCall, twin>>
    /\ LET auth == initializeHttpsAgent(initializeHttpsAgent(efiAuth)) IN
       IF auth.accessToken # Null
          /\ auth.now < auth.tokenExpiresAt - SafetyMargin
       THEN efiAuth' = [axiosSends(auth) EXCEPT
                           !.pc[w] = "put",
                           !.returned = Returned(started + 1, "cached",
                                                 auth.accessToken, 0)]
       ELSE efiAuth' = [axiosSends(auth) EXCEPT !.pc[w] = "config"]

\* await axios.put(authWebhookUrl, ...) of caller w settles
webhookConfigDone(w, ok) ==
    /\ efiAuth.pc[w] = "put"
    /\ efiAuth' = [efiAuth EXCEPT
                       !.pc[w] = "idle",
                       !.configured = IF ok THEN "done" ELSE "ExternalError"]
    /\ UNCHANGED <<donations, hw, router, clients, conns, cd, observed,
                   lastCall, started, twin>>

\* Date.now() is seen to have advanced
ClockAdvances ==
    /\ efiAuth.now < 30 * MaxClock
    /\ efiAuth' = [efiAuth EXCEPT !.now = @ + 30]
    /\ UNCHANGED <<donations, hw, router, clients, conns, cd, observed,
                   lastCall, started, twin>>

(***************************************************************************)
(* Specifications                                                          *)
(***************************************************************************)
NoTwin == [on |-> FALSE]

Init ==
    /\ donations = {}
    /\ hw = [w \in Workers |-> IdleCall]
    /\ router = [w \in Workers |-> IdleRouter]
    /\ clients = [t \in TxIds |-> NoClient]
    /\ conns = <<>>
    /\ cd = IdleCreate
    /\ observed = {}
    /\ lastCall = NoCall
    /\ started = 0
    /\ twin = NoTwin
    /\ efiAuth = NoAuth

NoneBusy == \A w \in Workers : ~router[w].busy
InFlight(pc) == { w \in Workers : hw[w].pc = pc }

\* the bodies with one element, with none, and without a pix array
Singles(payloads) ==
    { [isArray |-> TRUE, pix |-> <<p>>] : p \in payloads }
    \cup { [isArray |-> TRUE, pix |-> <<>>], [isArray |-> FALSE, pix |-> <<>>] }

\* what the gateway answers about a payment that has been confirmed
SettledOutcomes(tx) ==
    { [kind |-> "response", data |-> PaidCharge(tx)] }

\* environment steps
WebhookArrives ==
    \E body \in Singles(PlainPayloads) : NoneBusy /\ RouterStart(1, body)
BatchArrives ==
    \E body \in Bodies(PlainPayloads) : NoneBusy /\ RouterStart(1, body)
ConcurrentWebhookArrives ==
    \E w \in Workers, body \in Singles(PlainPayloads) : RouterStart(w, body)
StoreQueryAnswers ==
    \E w \in InFlight("findByTxId"), dbOk \in BOOLEAN : FindByTxIdDone(w, dbOk)
StoreQuerySucceeds ==
    \E w \in InFlight("findByTxId") : FindByTxIdDone(w, TRUE)
GatewayAnswers ==
    \E w \in InFlight("getPixDetails") :
        \E sdk \in SdkDetailOutcomes(hw[w].txId) : GetPixDetailsDone(w, sdk)
GatewayConfirms ==
    \E w \in InFlight("getPixDetails") :
        \E sdk \in SettledOutcomes(hw[w].txId) : GetPixDetailsDone(w, sdk)
RegistryAnswers ==
    \E w \in InFlight("findByExactCPF"), outcome \in RegistryOutcomes :
        FindByExactCPFDone(w, outcome)
StoreWriteAnswers ==
    \E w \in InFlight("save"), dbOk \in BOOLEAN, now \in ServerTimes :
        SaveDone(w, dbOk, now)
StoreWriteSucceeds ==
    \E w \in InFlight("save"), now \in ServerTimes : SaveDone(w, TRUE, now)
Subscribes == \E t \in TxIds : addClient(t)
Disconnects == \E c \in DOMAIN conns : OnClose(c)
ChargeRequested == \E data \in ChargeInputs : createDonationStart(data)
ChargePartnerAnswers ==
    \E outcome \in RegistryOutcomes : createDonationPartnerDone(outcome)
ChargeGatewayAnswers ==
    \E sdk \in SdkCreateOutcomes : createDonationChargeDone(sdk)

\* Reconciliation and charge creation: webhook requests one at a time, each
\* with one pix element, against every answer of gateway, registry and store
Next ==
    \/ WebhookArrives
    \/ StoreQueryAnswers
    \/ GatewayAnswers
    \/ RegistryAnswers
    \/ StoreWriteAnswers
    \/ ChargeRequested
    \/ ChargePartnerAnswers
    \/ ChargeGatewayAnswers

Spec == Init /\ [][Next]_vars

\* Notification: webhook batches one request at a time for payments the
\* gateway has confirmed, with clients subscribing and disconnecting
NextNotify ==
    \/ BatchArrives
    \/ StoreQuerySucceeds
    \/ GatewayConfirms
    \/ RegistryAnswers
    \/ StoreWriteSucceeds
    \/ Subscribes
    \/ Disconnects

SpecNotify == Init /\ [][NextNotify]_vars

\* Duplicate delivery: webhook requests in flight together, their awaited
\* operations settling in any order
NextRace ==
    \/ ConcurrentWebhookArrives
    \/ StoreQueryAnswers
    \/ GatewayAnswers
    \/ RegistryAnswers
    \/ StoreWriteAnswers

SpecRace == Init /\ [][NextRace]_vars

\* Calls side by side: as many webhook requests as the runtime may have in
\* flight, each with one pix element, their awaited operations settling in
\* any order and in each of the ways they can
WebhooksArriveTogether == started < NumWorkers /\ ConcurrentWebhookArrives

\* one gateway answer for each way a handlePixWebhook call goes on: a paid
\* charge, an open charge, a paid charge without payer data, and a failure
SampleOutcomes(tx) ==
    { [kind |-> "response", data |-> PaidCharge(tx)],
      [kind |-> "response", data |-> Charge(tx, "ATIVA", NoObject, "50.00")],
      [kind |-> "response", data |-> Charge(tx, "CONCLUIDA", NoObject, "50.00")],
      [kind |-> "reject", responseData |-> FALSE] }

GatewaySampleAnswers ==
    \E w \in InFlight("getPixDetails") :
        \E sdk \in SampleOutcomes(hw[w].txId) : GetPixDetailsDone(w, sdk)

\* Batches: webhook requests one at a time, each with a pix array of any
\* length, every element ending in each of the ways it can
FewBatchesArrive == started < MaxBatchRequests /\ BatchArrives

\* the store write succeeds or fails; the server's clock shows one time
StoreWriteSettles ==
    \E w \in InFlight("save"), dbOk \in BOOLEAN :
        SaveDone(w, dbOk, Timestamp(1, 0))

NextBatch ==
    \/ FewBatchesArrive
    \/ StoreQueryAnswers
    \/ GatewaySampleAnswers
    \/ RegistryAnswers
    \/ StoreWriteSettles

SpecBatch == Init /\ [][NextBatch]_vars

NextSideBySide ==
    \/ WebhooksArriveTogether
    \/ StoreQueryAnswers
    \/ GatewaySampleAnswers
    \/ RegistryAnswers
    \/ StoreWriteSettles

SpecSideBySide == Init /\ [][NextSideBySide]_vars

\* Credential: getToken calls in flight together against every answer of the
\* token endpoint, while time passes
TokenRequested == \E w \in Workers : getTokenStart(w)
TokenEndpointAnswers ==
    \E w \in Workers, response \in TokenResponses(efiAuth.issued) :
        getTokenDone(w, response)

NextToken ==
    \/ TokenRequested
    \/ TokenEndpointAnswers
    \/ ClockAdvances

SpecToken == Init /\ [][NextToken]_vars

\* Transport: getToken and webhookConfig calls in flight together, against
\* every answer of the token endpoint, while time passes
WebhookConfigRequested == \E w \in Workers : webhookConfigStart(w)
WebhookEndpointAnswers ==
    \E w \in Workers, ok \in BOOLEAN : webhookConfigDone(w, ok)

NextTransport ==
    \/ TokenRequested
    \/ WebhookConfigRequested
    \/ TokenEndpointAnswers
    \/ WebhookEndpointAnswers
    \/ ClockAdvances

SpecTransport == Init /\ [][NextTransport]_vars

\* the registry holds no partner of the payer's tax id
RegistryFindsNone ==
    \E w \in InFlight("findByExactCPF") : FindByExactCPFDone(w, [kind |-> Null])

\* the store write succeeds; the server's clock shows one time
StoreWrites ==
    \E w \in InFlight("save") : SaveDone(w, TRUE, Timestamp(1, 0))

\* Publishing batches: webhook requests one at a time, each with a pix array
\* of any length for payments the gateway has confirmed and the store
\* records, with clients subscribing and disconnecting
NextPublish ==
    \/ FewBatchesArrive
    \/ StoreQuerySucceeds
    \/ GatewayConfirms
    \/ RegistryFindsNone
    \/ StoreWrites
    \/ Subscribes
    \/ Disconnects

SpecPublish == Init /\ [][NextPublish]_vars



\* The handler's contract: handlePixWebhook called with any payload, one call
\* at a time, for payments the gateway has confirmed and the store records,
\* with clients subscribing
HandlerCalled ==
    \E payload \in PlainPayloads : NoneBusy /\ handlePixWebhookCalled(1, payload)

NextHandler ==
    \/ HandlerCalled
    \/ StoreQuerySucceeds
    \/ GatewayConfirms
    \/ RegistryFindsNone
    \/ StoreWrites
    \/ Subscribes

SpecHandler == Init /\ [][NextHandler]_vars

\* what the gateway answers when the charge it reports has no valor object
OutcomesWithoutValor(tx) ==
    { [kind |-> "response",
       data |-> [Charge(tx, status, NoObject, Undefined)
                     EXCEPT !.valor = NoObject]] : status \in GatewayStatuses }

GatewayOmitsValor ==
    \E w \in InFlight("getPixDetails") :
        \E sdk \in OutcomesWithoutValor(hw[w].txId) : GetPixDetailsDone(w, sdk)

\* The handler's failures: handlePixWebhook called with any payload, one call
\* at a time, each awaited operation failing or succeeding, the gateway's
\* answer with or without its valor object
NextErrors ==
    \/ HandlerCalled
    \/ StoreQueryAnswers
    \/ GatewaySampleAnswers
    \/ GatewayOmitsValor
    \/ RegistryAnswers
    \/ StoreWriteSettles

SpecErrors == Init /\ [][NextErrors]_vars

\* Charge creation: createDonation calls against every answer of registry and
\* gateway, beside webhook requests for payments the gateway has confirmed
\* and the store records
NextCharge ==
    \/ ChargeRequested
    \/ ChargePartnerAnswers
    \/ ChargeGatewayAnswers
    \/ WebhookArrives
    \/ StoreQuerySucceeds
    \/ GatewayConfirms
    \/ RegistryFindsNone
    \/ StoreWrites

SpecCharge == Init /\ [][NextCharge]_vars

\* Connections: clients subscribing and disconnecting and the keep-alive
\* timers firing, around webhook requests of one pix element each for
\* payments the gateway has confirmed
KeepAliveFires == \E c \in DOMAIN conns : OnKeepAlive(c)

NextKeepAlive ==
    \/ WebhookArrives
    \/ StoreQuerySucceeds
    \/ GatewayConfirms
    \/ RegistryAnswers
    \/ StoreWriteSucceeds
    \/ Subscribes
    \/ Disconnects
    \/ KeepAliveFires

SpecKeepAlive == Init /\ [][NextKeepAlive]_vars

(***************************************************************************)
(* Two handlePixWebhook calls side by side: both start from the same store *)
(* with payloads that carry the same txid, and every awaited operation     *)
(* settles the same way for both.                                          *)
(***************************************************************************)
StoredStatuses == {"PAGA", "ATIVA"}

\* the document a first confirmation of tx left in the store, with the
\* status later webhooks gave it
StoredDocument(tx, docs, status, now) ==
    LET partner == [kind |-> "partner", name |-> RegistryName, cim |-> "CIM-7"]
        created == save(newDonation(PaidCharge(tx), partner), docs, TRUE, now)
    IN [(CHOOSE d \in created.docs : d \notin docs) EXCEPT !.status = status]

\* the stores that hold at most one document for each of the transactions
RECURSIVE StoresOver(_)
StoresOver(txs) ==
    IF txs = {} THEN { {} }
    ELSE LET t == CHOOSE x \in txs : TRUE
             rest == StoresOver(txs \ {t})
         IN rest \cup { docs \cup {StoredDocument(t, docs, st, now)} :
                            docs \in rest, st \in StoredStatuses,
                            now \in ServerTimes }

TwinOf(payloadA, payloadB, docs) ==
    [on |-> TRUE,
     a |-> handlePixWebhookStart(payloadA).call,
     b |-> handlePixWebhookStart(payloadB).call,
     done |-> FALSE,
     resultA |-> Return(NoDonation), resultB |-> Return(NoDonation),
     docsA |-> docs, docsB |-> docs]

InitTwin ==
    /\ donations \in StoresOver(TxIds)
    /\ hw = [w \in Workers |-> IdleCall]
    /\ router = [w \in Workers |-> IdleRouter]
    /\ clients = [t \in TxIds |-> NoClient]
    /\ conns = <<>>
    /\ cd = IdleCreate
    /\ observed = {}
    /\ lastCall = NoCall
    /\ started = 0
    /\ \E pa \in AllPayloads :
         \E pb \in { p \in AllPayloads : p.txid = pa.txid } :
            twin = TwinOf(pa, pb, donations)
    /\ efiAuth = NoAuth

\* both calls take the step the settled operation gives each of them
TwinAdvance(sa, sb, docsA, docsB) ==
    /\ twin' = [twin EXCEPT !.a = sa.call, !.b = sb.call,
                            !.done = sa.done \/ sb.done,
                            !.resultA = sa.result, !.resultB = sb.result,
                            !.docsA = docsA, !.docsB = docsB]
    /\ UNCHANGED <<donations, hw, router, clients, conns, cd, observed,
                   lastCall, started, efiAuth>>

TwinAt(pc) == twin.on /\ ~twin.done /\ twin.a.pc = pc /\ twin.b.pc = pc

TwinFindByTxIdDone ==
    /\ TwinAt("findByTxId")
    /\ \E dbOk \in BOOLEAN :
         \E settled \in findByTxIdSettles(donations, twin.a.txId, dbOk) :
            TwinAdvance(afterFindByTxId(twin.a, settled),
                        afterFindByTxId(twin.b, settled),
                        donations, donations)

TwinGetPixDetailsDone ==
    /\ TwinAt("getPixDetails")
    /\ \E sdk \in SdkDetailOutcomes(twin.a.txId) :
            TwinAdvance(afterGetPixDetails(twin.a, getPixDetails(sdk)),
                        afterGetPixDetails(twin.b, getPixDetails(sdk)),
                        donations, donations)

TwinFindByExactCPFDone ==
    /\ TwinAt("findByExactCPF")
    /\ \E outcome \in RegistryOutcomes :
            TwinAdvance(afterFindByExactCPF(twin.a, findByExactCPF(outcome)),
                        afterFindByExactCPF(twin.b, findByExactCPF(outcome)),
                        donations, donations)

TwinSaveDone ==
    /\ TwinAt("save")
    /\ \E dbOk \in BOOLEAN, now \in ServerTimes :
         LET savedA == save(twin.a.donation, donations, dbOk, now)
             savedB == save(twin.b.donation, donations, dbOk, now)
         IN TwinAdvance(afterSave(twin.a, savedA), afterSave(twin.b, savedB),
                        savedA.docs, savedB.docs)

NextTwin ==
    \/ TwinFindByTxIdDone
    \/ TwinGetPixDetailsDone
    \/ TwinFindByExactCPFDone
    \/ TwinSaveDone

SpecTwin == InitTwin /\ [][NextTwin]_vars

(***************************************************************************)
(* Properties                                                              *)
(***************************************************************************)
RowsOf(t) == { d \in donations : d.txId = t }
HasRow(t) == RowsOf(t) # {}

\* the step in which the handlePixWebhook call of request w returns or throws
CallCompletes(w) == hw[w].pc # "idle" /\ router'[w] # router[w]

\* C1: when a first confirmation of a txId (no record, gateway CONCLUIDA with
\* complete payer data) created its record and the same payload is handled
\* again while the gateway still reports CONCLUIDA with complete payer data,
\* the second call writes nothing and the store holds exactly one record of
\* that txId, with status PAGA.
C1_IdempotentPersistence ==
    (lastCall.replay /\ lastCall.official = "CONCLUIDA" /\ lastCall.complete)
        => /\ lastCall.writes = 0
           /\ Cardinality(RowsOf(lastCall.txId)) = 1
           /\ \A d \in RowsOf(lastCall.txId) : d.status = "PAGA"

C1_ReplayHandled ==
    /\ lastCall.replay
    /\ lastCall.prior = "PAGA"
    /\ lastCall.official = "CONCLUIDA"
    /\ lastCall.complete
    /\ lastCall.outcome = "donation"
    /\ lastCall.writes = 0

\* C2: over the webhook deliveries for a confirmed payment (replays and
\* batches that repeat a txid included), a connection subscribed to the txId
\* is written at most one donationPaid event.
C2_AtMostOneEvent ==
    \A c \in DOMAIN conns : Len(conns[c].events) <= 1

\* C3: whatever the interleaving of the webhook requests in flight, the
\* store never holds more than one record of a txId.
C3_AtMostOneRecord ==
    \A t \in TxIds : Cardinality(RowsOf(t)) <= 1

\* C4: a stored record with status PAGA keeps that status in every step, and
\* a handlePixWebhook call whose lookup found the record PAGA completes
\* without a store write, whatever the gateway reported.
C4_PaidIsTerminal ==
    [][/\ \A d \in donations :
             d.status = "PAGA"
                => \E e \in donations' : e.id = d.id /\ e.status = "PAGA"
       /\ \A w \in Workers :
             (CallCompletes(w) /\ lastCall'.prior = "PAGA")
                => lastCall'.writes = 0]_vars

\* C5: two handlePixWebhook calls that start from the same store with
\* payloads of the same txid, and see the same answers of store, gateway and
\* registry, are in the same state at every step but for the payload they
\* hold, return or throw the same, and leave the same store; and a call
\* whose payload claims CONCLUIDA while the gateway reported another status
\* (or none) leaves no PAGA record that was not in the store before.
C5_NoFabrication ==
    twin.on =>
        /\ [twin.a EXCEPT !.rawWebhookPayload = NoObject]
              = [twin.b EXCEPT !.rawWebhookPayload = NoObject]
        /\ twin.done => twin.resultA = twin.resultB
        /\ twin.docsA = twin.docsB
        /\ (/\ twin.a.rawWebhookPayload.status = "CONCLUIDA"
            /\ twin.a.official # "CONCLUIDA")
              => \A d \in twin.docsA : d.status = "PAGA" => d \in donations

C5_DifferingPayloadsHandled ==
    /\ twin.on
    /\ twin.done
    /\ twin.a.rawWebhookPayload.status # twin.b.rawWebhookPayload.status
    /\ twin.a.rawWebhookPayload.valor # twin.b.rawWebhookPayload.valor
    /\ twin.a.rawWebhookPayload.devedor # twin.b.rawWebhookPayload.devedor
    /\ twin.resultA.ok
    /\ twin.resultA.value.kind # Null
    /\ twin.docsA # donations

\* C6: no step of createDonation changes the donations store, however the
\* call ends.
C6_CreateDonationWritesNothing ==
    [][cd' # cd => donations' = donations]_vars

C6_ChargeCreatedWithoutRow ==
    /\ cd.result.ok
    /\ cd.result.value.kind = "charge view"
    /\ ~HasRow(cd.result.value.txId)

C8_LazyCreationCompleteness ==
    (/\ lastCall.prior = "none"
     /\ lastCall.official = "CONCLUIDA"
     /\ lastCall.complete
     /\ lastCall.outcome # "DatabaseError")
        => /\ lastCall.outcome = "donation"
           /\ lastCall.writes = 1
           /\ Cardinality(RowsOf(lastCall.txId)) = 1
           /\ \A d \in RowsOf(lastCall.txId) :
                 LET charge == PaidCharge(lastCall.txId) IN
                 /\ d.status = "PAGA"
                 /\ d.donorCPF = charge.devedor.cpf
                 /\ d.donorName = charge.devedor.nome
                 /\ d.amount = parseFloat(charge.valor.original)
                 /\ d.txId = charge.txid
                 /\ d.locId = charge.loc.id
                 /\ d.qrCode = charge.location
                 /\ d.copyPaste = charge.pixCopiaECola

C8_RecordCreated ==
    /\ lastCall.prior = "none"
    /\ lastCall.official = "CONCLUIDA"
    /\ lastCall.complete
    /\ lastCall.outcome = "donation"
    /\ lastCall.writes = 1
    /\ HasRow(lastCall.txId)

C10_NonConfirmingUpdateFrame ==
    [][\A w \in Workers :
          (/\ CallCompletes(w)
           /\ lastCall'.prior # "none"
           /\ lastCall'.official \notin {"none", "CONCLUIDA"}
           /\ lastCall'.official # lastCall'.prior
           /\ lastCall'.outcome = "donation")
             => \E d \in RowsOf(lastCall'.txId) :
                   donations' = (donations \ {d})
                       \cup {[d EXCEPT !.status = lastCall'.official]}]_vars

\* the txids of the list a request holds for the hub, or passed to it
TxIdsOf(list) == { list[i].txid : i \in DOMAIN list }

\* what request w has passed, or will pass, to sseService.notifyDonationPaid
ForHub(r) == IF r.busy THEN r.processedDonationsForSSE ELSE r.notified

\* C11: a handlePixWebhook call that found no record and got a status other
\* than CONCLUIDA from the gateway returns null, has made no write and leaves
\* the store as it was; the request adds nothing to what it passes to the
\* hub, and no connection is written to in the step.
C11_UnconfirmedWithoutRecordIsNoOp ==
    [][\A w \in Workers :
          (/\ CallCompletes(w)
           /\ lastCall'.prior = "none"
           /\ lastCall'.official \notin {"none", "CONCLUIDA"})
             => /\ lastCall'.outcome = Null
                /\ lastCall'.writes = 0
                /\ donations' = donations
                /\ ForHub(router'[w]) = router[w].processedDonationsForSSE
                /\ conns' = conns]_vars

C11_NoOpBesideOtherRecord ==
    /\ lastCall.prior = "none"
    /\ lastCall.official = "REMOVIDA_PELO_USUARIO_RECEBEDOR"
    /\ lastCall.outcome = Null
    /\ ~HasRow(lastCall.txId)
    /\ donations # {}
    /\ ~router[1].busy
    /\ router[1].response.text = "processed"
    /\ router[1].notified = <<>>

\* C12: when a handlePixWebhook call found a record whose status was not
\* PAGA, the gateway reported CONCLUIDA and the store write did not fail, the
\* call returns the donation, the store then holds one record of the txId,
\* the one found (same id) with status PAGA, and the request adds one item
\* of that txId to what it passes to the hub.
C12_TransitionToPaidInPlace ==
    [][\A w \in Workers :
          (/\ CallCompletes(w)
           /\ lastCall'.prior \notin {"none", "PAGA"}
           /\ lastCall'.official = "CONCLUIDA"
           /\ lastCall'.outcome # "DatabaseError")
             => /\ lastCall'.outcome = "donation"
                /\ \E d \in RowsOf(lastCall'.txId) :
                      \E e \in donations' :
                         /\ e.id = d.id
                         /\ e.status = "PAGA"
                         /\ { x \in donations' : x.txId = lastCall'.txId } = {e}
                /\ Len(ForHub(router'[w]))
                      = Len(router[w].processedDonationsForSSE) + 1
                /\ ForHub(router'[w])[Len(ForHub(router'[w]))].txid
                      = lastCall'.txId]_vars

C12_Transitioned ==
    /\ lastCall.prior = "ATIVA"
    /\ lastCall.official = "CONCLUIDA"
    /\ lastCall.outcome = "donation"
    /\ lastCall.writes = 1
    /\ Cardinality(RowsOf(lastCall.txId)) = 1
    /\ ~router[1].busy
    /\ lastCall.txId \in TxIdsOf(router[1].notified)

\* C13: a handlePixWebhook call whose getPixDetails call fails throws
\* ExternalError, and the store is as it was.
C13_GatewayFailureIsExternalError ==
    [][\A w \in Workers :
          (/\ hw[w].pc = "getPixDetails"
           /\ CallCompletes(w)
           /\ lastCall'.official = "none")
             => /\ lastCall'.outcome = "ExternalError"
                /\ donations' = donations]_vars

\* C14: whatever the registry lookup of a lazy creation does, the call goes
\* on to save a new donation with status PAGA, whose donorCIM is the
\* partner's or null.
C14_RegistryNeverBlocksCreation ==
    [][\A w \in Workers :
          (hw[w].pc = "findByExactCPF" /\ hw'[w] # hw[w])
             => /\ ~CallCompletes(w)
                /\ hw'[w].pc = "save"
                /\ hw'[w].donation.id = Undefined
                /\ hw'[w].donation.status = "PAGA"
                /\ hw'[w].donation.donorCIM \in {Null, "CIM-7"}]_vars

\* the positions of a pix array that carry a txid
WithTxId(batch) == { i \in DOMAIN batch : ~Falsy(batch[i].txid) }

\* C15: a webhook request with a pix array never answers with a status other
\* than 200; when a handlePixWebhook call of the request returns or throws,
\* the next element with a txid, if there is one, is passed to
\* handlePixWebhook, and otherwise the request answers 200 having counted
\* every element with a txid as a success or as a failure.
C15_PerItemFailuresIsolated ==
    [][\A w \in Workers :
          /\ router'[w].response.status \in {"none", "200"}
          /\ CallCompletes(w)
               => LET batch == router[w].batch
                      later == { i \in WithTxId(batch) : i > router[w].idx }
                  IN IF later # {}
                     THEN /\ router'[w].busy
                          /\ hw'[w].pc = "findByTxId"
                          /\ hw'[w].rawWebhookPayload
                                = batch[CHOOSE i \in later :
                                            \A j \in later : i <= j]
                     ELSE /\ ~router'[w].busy
                          /\ router'[w].response.status = "200"
                          /\ router'[w].response.successfulProcesses
                               + Len(router'[w].response.failedTxIds)
                                 = Cardinality(WithTxId(batch))]_vars

C15_SucceededAfterFailure ==
    /\ ~router[1].busy
    /\ router[1].response.status = "200"
    /\ router[1].response.text = "partial"
    /\ Len(router[1].response.failedTxIds) = 1
    /\ lastCall.outcome = "donation"

\* C16: the hub's registry holds for a txId at most one connection, one
\* opened for that txId; and a donationPaid event is written only to the
\* connection opened last for its txId, never to an earlier one.
C16_LastWriterWins ==
    [][/\ \A t \in TxIds :
             clients'[t].kind # Undefined
                => /\ clients'[t].conn \in DOMAIN conns'
                   /\ conns'[clients'[t].conn].txId = t
       /\ \A c \in DOMAIN conns :
             conns'[c].events # conns[c].events
                => \A c2 \in DOMAIN conns :
                      conns[c2].txId = conns[c].txId => c2 <= c]_vars

C16_OnlyLaterConnectionWritten ==
    \E c1, c2 \in DOMAIN conns :
        /\ c1 < c2
        /\ conns[c1].txId = conns[c2].txId
        /\ conns[c1].open
        /\ conns[c1].events = <<>>
        /\ conns[c2].events # <<>>

\* the step in which request w ends: the hub is notified, the response sent
RequestEnds(w) == router[w].busy /\ ~router'[w].busy

\* C17: when a request ends and publishes, it answers 200, the registry is
\* as it was, and nothing is written to a connection of a txId that has no
\* registered client; a connection opened later starts without events, and
\* events are written only in the step of a request that publishes the
\* connection's txId.
C17_UnsubscribedPublishIsDropped ==
    [][/\ \A w \in Workers :
             RequestEnds(w)
                => /\ router'[w].response.status = "200"
                   /\ clients' = clients
                   /\ \A c \in DOMAIN conns :
                         clients[conns[c].txId].kind = Undefined
                            => conns'[c] = conns[c]
       /\ \A c \in DOMAIN conns' \ DOMAIN conns : conns'[c].events = <<>>
       /\ \A c \in DOMAIN conns :
             conns'[c].events # conns[c].events
                => \E w \in Workers :
                      /\ RequestEnds(w)
                      /\ conns[c].txId \in TxIdsOf(router'[w].notified)]_vars

C17_SubscribedAfterPublish ==
    /\ ~router[1].busy
    /\ router[1].response.status = "200"
    /\ Len(conns) = 1
    /\ conns[1].open
    /\ clients[conns[1].txId].kind # Undefined
    /\ conns[1].txId \in TxIdsOf(router[1].notified)
    /\ conns[1].events = <<>>

\* the number of items of a list published for txId t
PublishedFor(list, t) == Cardinality({ i \in DOMAIN list : list[i].txid = t })

\* C18: when a request publishes, a connection is written as many events at
\* most as the request publishes items of the connection's txId (none when it
\* publishes only other txIds), nothing else of the connection changes, and
\* no registry entry changes.
C18_NotificationIsolation ==
    [][\A w \in Workers :
          RequestEnds(w)
             => /\ clients' = clients
                /\ \A c \in DOMAIN conns :
                      /\ Len(conns'[c].events) - Len(conns[c].events)
                            <= PublishedFor(router'[w].notified, conns[c].txId)
                      /\ [conns'[c] EXCEPT !.events = <<>>]
                            = [conns[c] EXCEPT !.events = <<>>]]_vars

C18_OtherSubscriberNotWritten ==
    \E c1, c2 \in DOMAIN conns :
        /\ c2 < c1
        /\ conns[c1].txId # conns[c2].txId
        /\ conns[c1].open /\ conns[c2].open
        /\ clients[conns[c1].txId].kind # Undefined
        /\ clients[conns[c2].txId].kind # Undefined
        /\ conns[c1].events # <<>>
        /\ conns[c2].events = <<>>

\* C19: the step in which a connection closes cancels its keep-alive timer
\* and, when it is the connection registered for its txId, removes the
\* registry entry; and a closed connection is never written to again: no
\* keep-alive and no donationPaid event.
C19_TeardownOnDisconnect ==
    [][\A c \in DOMAIN conns :
          /\ (conns[c].open /\ ~conns'[c].open)
                => /\ ~conns'[c].keepAlive
                   /\ clients[conns[c].txId] = [kind |-> "client", conn |-> c]
                         => clients'[conns[c].txId] = NoClient
          /\ ~conns[c].open => conns'[c] = conns[c]]_vars

C19_ClosedAndSilent ==
    /\ Len(conns) = 1
    /\ ~conns[1].open
    /\ ~conns[1].keepAlive
    /\ conns[1].pings < MaxPings
    /\ clients[conns[1].txId] = NoClient
    /\ ~router[1].busy
    /\ conns[1].txId \in TxIdsOf(router[1].notified)
    /\ conns[1].events = <<>>

\* C20: every donationPaid event written to a connection carries the data of
\* the stored donation of the connection's txId: its txId as txid, its
\* amount as valor, its donor name as pagador, its creation time as horario,
\* and status PAGA.
C20_EventContent ==
    \A c \in DOMAIN conns :
        \A i \in DOMAIN conns[c].events :
            LET event == conns[c].events[i] IN
            \E d \in RowsOf(conns[c].txId) :
                /\ event.type = "donationPaid"
                /\ event.txid = d.txId
                /\ event.valor = d.amount
                /\ event.pagador = d.donorName
                /\ event.horario = convertToDate(d.createdAt)
                /\ event.status = "PAGA"

(***************************************************************************)
(* Charge creation                                                         *)
(***************************************************************************)
\* the call of createDonation that ended has thrown an error of this name
CreateFailedWith(c, name) ==
    c.pc = "idle" /\ ~c.result.ok /\ c.result.error.name = name

\* what createDonation is to refuse: a missing donorCPF or amount, an amount
\* that is not positive, a tax id whose digits are not eleven
Refused(data) ==
    \/ data.donorCPF = Undefined
    \/ data.amount = Undefined
    \/ NotPositive(parseFloat(data.amount))
    \/ cpfLength(cleanCPF(data.donorCPF)) # 11

\* C21: a createDonation call whose donorCPF or amount is missing, whose
\* amount is not positive, or whose tax id stripped of non-digits is not
\* eleven characters long ends with ValidationError in the step it starts in:
\* no registry query and no gateway call is awaited.
C21_ChargeCreationValidation ==
    [][cd.pc = "idle" /\ started' # started
         => \A data \in ChargeInputs :
                Refused(data) /\ createDonationStart(data)
                    => CreateFailedWith(cd', "ValidationError")]_vars

C21_RefusedWithoutLookup ==
    /\ CreateFailedWith(cd, "ValidationError")
    /\ started > 0

\* C22: a createDonation call whose registry lookup finds no partner ends with
\* NotFoundError, and the gateway's create-charge call is only ever awaited
\* right after a registry lookup of validated input that returned a partner.
C22_ChargesOnlyForRegisteredDonors ==
    [][/\ cd.pc = "findByExactCPF" /\ cd' # cd
              => \A outcome \in RegistryOutcomes :
                     outcome.kind = Null /\ createDonationPartnerDone(outcome)
                         => CreateFailedWith(cd', "NotFoundError")
       /\ cd'.pc = "createImmediatePixCharge" /\ cd.pc # "createImmediatePixCharge"
              => /\ cd.pc = "findByExactCPF"
                 /\ ~Refused([donorCPF |-> cd.donorCPF, amount |-> cd.amount])
                 /\ cd'.donorName = RegistryName]_vars

C22_UnregisteredRefused ==
    CreateFailedWith(cd, "NotFoundError")

\* C23: POST /doacoes/gerar answers 201 when createDonation returns the
\* charge, 409 when it fails validation, which covers a malformed tax id as
\* well as a tax id that is not registered, and 502 when the gateway fails.
C23_EndpointStatusCodes ==
    cd.pc = "idle" /\ cd.status # 0
        => /\ cd.result.ok => cd.status = 201
           /\ CreateFailedWith(cd, "ValidationError") => cd.status = 409
           /\ CreateFailedWith(cd, "NotFoundError") => cd.status = 409
           /\ CreateFailedWith(cd, "ExternalError") => cd.status = 502

\* the gateway answered the create-charge call, and its answer carries txid,
\* loc, location, pixCopiaECola and calendario
CompleteCharge(sdk) ==
    /\ sdk.kind = "response"
    /\ sdk.data.txid # Undefined
    /\ sdk.data.loc # NoObject
    /\ sdk.data.location # Undefined
    /\ sdk.data.pixCopiaECola # Undefined
    /\ sdk.data.calendario # NoObject

Contents(docs) == { [d EXCEPT !.id = "id"] : d \in docs }

\* the handlePixWebhook call of request w takes a step
CallSteps(w) == hw[w].pc # "idle" /\ <<hw[w], router[w]>>' # <<hw[w], router[w]>>

\* C25: each step of a handlePixWebhook call reads only the documents of its
\* own txId, writes only a document of its own txId, as it would were they the
\* only documents, and leaves the calls and documents of every other txId as
\* they are: steps of calls on distinct txIds commute, so every interleaving
\* ends with the store content and return values of either sequential order.
C25_IndependentTransactions ==
    [][\A w \in Workers :
           CallSteps(w)
               => LET t == hw[w].txId
                      mine == RowsOf(t)
                  IN /\ \A v \in Workers \ {w} :
                            hw'[v] = hw[v] /\ router'[v] = router[v]
                     /\ \A u \in TxIds \ {t} : RowsOf(u)' = RowsOf(u)
                     /\ hw[w].pc = "findByTxId" /\ hw'[w].pc = "getPixDetails"
                            => hw'[w].donation \in findByTxId(mine, t)
                     /\ hw[w].pc = "save"
                            => \E dbOk \in BOOLEAN, now \in ServerTimes :
                                   LET alone == save(hw[w].donation, mine,
                                                     dbOk, now)
                                   IN /\ Contents({ d \in donations' :
                                                      d.txId = t })
                                             = Contents(alone.docs)
                                      /\ lastCall'.outcome
                                             = IF dbOk THEN "donation"
                                               ELSE "DatabaseError"
                                      /\ dbOk =>
                                             ForHub(router'[w])
                                                 = ForHub(afterCall(
                                                       router[w], t,
                                                       Return(alone.this)))]_vars

C25_BothWritingSideBySide ==
    /\ hw[1].pc = "save"
    /\ hw[2].pc = "save"
    /\ hw[1].txId = "tx1"
    /\ hw[2].txId = "tx2"

(***************************************************************************)
(* The gateway credential                                                  *)
(***************************************************************************)
\* C26: a getToken call returns the cached token, without a request to the
\* token endpoint, exactly when a token is cached and the time is more than
\* 60 seconds before the recorded expiry; otherwise it requests a token, and
\* the token a response brings is cached with expiry = now + expires_in and
\* returned.  A token returned from the cache is never within 60 seconds of
\* its recorded expiry or past it.
C26_CredentialFreshness ==
    [][/\ started' # started /\ efiAuth' # efiAuth
            => IF /\ efiAuth.accessToken # Null
                  /\ efiAuth.now + 60 < efiAuth.tokenExpiresAt
               THEN /\ efiAuth'.returned.kind = "cached"
                    /\ efiAuth'.returned.calls = started'
                    /\ efiAuth'.returned.token = efiAuth.accessToken
                    /\ efiAuth'.pc = efiAuth.pc
                    /\ efiAuth'.accessToken = efiAuth.accessToken
                    /\ efiAuth'.tokenExpiresAt = efiAuth.tokenExpiresAt
                    /\ efiAuth'.issued = efiAuth.issued
               ELSE \E w \in Workers :
                        /\ efiAuth.pc[w] = "idle"
                        /\ efiAuth'.pc = [efiAuth.pc EXCEPT ![w] = "post"]
                        /\ efiAuth'.accessToken = efiAuth.accessToken
                        /\ efiAuth'.tokenExpiresAt = efiAuth.tokenExpiresAt
                        /\ efiAuth'.issued = efiAuth.issued
                        /\ efiAuth'.returned = efiAuth.returned
       /\ efiAuth'.returned # efiAuth.returned
          /\ efiAuth'.returned.kind = "fresh"
            => /\ efiAuth'.accessToken = efiAuth'.returned.token
               /\ efiAuth'.tokenExpiresAt
                      = efiAuth.now + efiAuth'.returned.expires_in
               /\ \E w \in Workers :
                      efiAuth.pc[w] = "post" /\ efiAuth'.pc[w] = "idle"
       /\ efiAuth'.returned # efiAuth.returned
          /\ efiAuth'.returned.kind = "cached"
            => /\ efiAuth'.returned.token = efiAuth.accessToken
               /\ efiAuth.tokenExpiresAt - efiAuth.now > 60]_vars

\* the token in the cache was returned from it after time had passed
C26_CachedTokenReturned ==
    /\ efiAuth.returned.kind = "cached"
    /\ efiAuth.returned.token = efiAuth.accessToken
    /\ efiAuth.tokenExpiresAt - efiAuth.now = 90
    /\ efiAuth.now > 0

(***************************************************************************)
(* The hub's registry against publishes                                    *)
(***************************************************************************)
\* C27: whatever the order of subscriptions, disconnects and publishes of a
\* txId, a step that writes to a connection writes whole donationPaid events
\* after those it already got, the connection is the one registered for its
\* txId when the step is taken, and its close handler has not run.
C27_RegistryAtomicAgainstPublish ==
    [][\A c \in DOMAIN conns :
           conns'[c].events # conns[c].events
               => /\ clients[conns[c].txId] = [kind |-> "client", conn |-> c]
                  /\ conns[c].open
                  /\ Len(conns'[c].events) > Len(conns[c].events)
                  /\ SubSeq(conns'[c].events, 1, Len(conns[c].events))
                         = conns[c].events
                  /\ \A i \in DOMAIN conns'[c].events :
                         /\ conns'[c].events[i].type = "donationPaid"
                         /\ DOMAIN conns'[c].events[i]
                                = {"type", "txid", "valor", "pagador",
                                   "horario", "status"}]_vars

C27_WrittenAfterEarlierClose ==
    \E c1, c2 \in DOMAIN conns :
        /\ c1 < c2
        /\ conns[c1].txId = conns[c2].txId
        /\ ~conns[c1].open
        /\ conns[c1].events = <<>>
        /\ conns[c2].open
        /\ conns[c2].events # <<>>

\* C28: when a request publishes its list, the connection registered for a
\* txId is written one event for each item of that txId, in the order of the
\* list, whatever items of txIds without a registered connection stand before
\* or after them.
C28_BatchPublishIndependence ==
    [][\A w \in Workers :
           RequestEnds(w)
               => \A t \in TxIds :
                      clients[t].kind # Undefined
                          => LET c == clients[t].conn
                                 list == router'[w].notified
                                 mine == SelectSeq(list,
                                             LAMBDA d : d.txid = t)
                             IN conns'[c].events
                                    = conns[c].events
                                          \o [i \in DOMAIN mine |->
                                                 eventData(mine[i])]]_vars

\* a list whose first item had no registered connection and whose second
\* item was delivered
C28_DeliveredAfterUnsubscribedItem ==
    /\ ~router[1].busy
    /\ Len(router[1].notified) = 2
    /\ router[1].notified[1].txid # router[1].notified[2].txid
    /\ clients[router[1].notified[1].txid].kind = Undefined
    /\ \A c \in DOMAIN conns : conns[c].open
    /\ \E c \in DOMAIN conns :
           /\ conns[c].txId = router[1].notified[2].txid
           /\ Len(conns[c].events) = 1

(***************************************************************************)
(* Payloads without txid                                                   *)
(***************************************************************************)
\* C29: a handlePixWebhook call with a payload without txid throws
\* ValidationError in the step it is made: no store lookup and no gateway
\* call is awaited, and the store, the registry of the hub and its
\* connections are as they were.
C29_MissingTransactionId ==
    [][\A w \in Workers, payload \in PlainPayloads :
           payload.txid = Undefined /\ handlePixWebhookCalled(w, payload)
               => /\ lastCall'.outcome = "ValidationError"
                  /\ lastCall'.writes = 0
                  /\ lastCall'.prior = "none"
                  /\ lastCall'.official = "none"
                  /\ hw'[w].pc = "idle"
                  /\ donations' = donations
                  /\ clients' = clients
                  /\ conns' = conns]_vars

C29_RejectedBesideRecordAndClient ==
    /\ lastCall.outcome = "ValidationError"
    /\ lastCall.txId = Undefined
    /\ donations # {}
    /\ conns # <<>>

\* C30: an element without txid is never passed to handlePixWebhook; a
\* request goes from its arrival, and from each completed call, on to the
\* next element that has a txid, whatever elements without txid stand in
\* between; and when it ends it has counted exactly the elements with a txid,
\* each as a success or as a failure, none of the failures without a txid.
C30_MalformedElementSkipped ==
    [][\A w \in Workers :
           LET batch == IF router[w].busy THEN router[w].batch
                        ELSE router'[w].batch
               from == IF router[w].busy THEN router[w].idx ELSE 0
               later == { i \in WithTxId(batch) : i > from }
           IN /\ hw'[w].pc # "idle"
                    => /\ hw'[w].txId # Undefined
                       /\ hw'[w].rawWebhookPayload.txid = hw'[w].txId
              /\ router'[w] # router[w]
                    => IF later # {}
                       THEN /\ router'[w].busy
                            /\ router'[w].idx
                                   = CHOOSE i \in later : \A j \in later : i <= j
                            /\ hw'[w].rawWebhookPayload
                                   = batch[router'[w].idx]
                       ELSE /\ ~router'[w].busy
                            /\ router'[w].response.successfulProcesses
                                 + Len(router'[w].response.failedTxIds)
                                   = Cardinality(WithTxId(router[w].batch))
                            /\ \A i \in DOMAIN router'[w].response.failedTxIds :
                                   router'[w].response.failedTxIds[i]
                                       # Undefined]_vars

\* the second element of a batch is with handlePixWebhook, the first, which
\* has no txid, having been counted as nothing
C30_ProcessingAfterElementWithoutTxId ==
    /\ router[1].busy
    /\ Len(router[1].batch) = 2
    /\ router[1].batch[1].txid = Undefined
    /\ router[1].idx = 2
    /\ hw[1].pc = "save"
    /\ router[1].successfulProcesses = 0
    /\ router[1].failedTxIds = <<>>

(***************************************************************************)
(* Writes, errors and calls of one handlePixWebhook invocation             *)
(***************************************************************************)
\* C31: a handlePixWebhook call makes no store write or one; and a call that
\* found a record whose status is the one it would store (PAGA when the
\* gateway reports CONCLUIDA, the reported status otherwise) ends straight
\* from the gateway's answer, with no save awaited, no write made and the
\* store as it was.
C31_NoWriteWhenNothingChanges ==
    [][\A w \in Workers :
           CallCompletes(w)
               => /\ lastCall'.writes \in {0, 1}
                  /\ hw[w].pc = "save" => hw[w].writes = 0
                  /\ LET wouldStore == IF lastCall'.official = "CONCLUIDA"
                                       THEN "PAGA" ELSE lastCall'.official
                     IN (lastCall'.prior # "none" /\ lastCall'.prior = wouldStore)
                            => /\ hw[w].pc = "getPixDetails"
                               /\ lastCall'.writes = 0
                               /\ donations' = donations]_vars

\* a record whose status is not PAGA was found with the status the gateway
\* reports, and left unwritten
C31_UnconfirmedStatusUnchanged ==
    /\ lastCall.prior = "ATIVA"
    /\ lastCall.official = "ATIVA"
    /\ lastCall.writes = 0
    /\ lastCall.outcome = "donation"

\* C32: the error a handlePixWebhook call ends with is the very error (class
\* and message) that the store query, the registry lookup, the save or the
\* payer-data validation raised, these being DatabaseError or ValidationError;
\* and when the gateway's answer has no valor object the call ends with a
\* DatabaseError whose message holds the transaction id.
C32_TypedPassThroughUntypedWrapped ==
    [][\A w \in Workers :
           (/\ hw[w].pc # "idle"
            /\ CallCompletes(w)
            /\ lastCall'.outcome \notin {Null, "donation"})
               => LET thrown == [name |-> lastCall'.outcome,
                                 message |-> lastCall'.message]
                      Same(e) == /\ e.name \in {"ValidationError", "NotFoundError",
                                                "DatabaseError"}
                                 /\ thrown = [name |-> e.name,
                                              message |-> e.message]
                  IN /\ \A dbOk \in BOOLEAN :
                            FindByTxIdDone(w, dbOk)
                                => \A settled \in findByTxIdSettles(
                                                donations, hw[w].txId, dbOk) :
                                       Same(settled.error)
                     /\ \A outcome \in RegistryOutcomes :
                            FindByExactCPFDone(w, outcome)
                                => Same(findByExactCPF(outcome).error)
                     /\ \A dbOk \in BOOLEAN :
                            SaveDone(w, dbOk, Timestamp(1, 0))
                                => Same(save(hw[w].donation, donations, dbOk,
                                             Timestamp(1, 0)).error)
                     /\ \A sdk \in SdkDetailOutcomes(hw[w].txId) :
                            (sdk.kind = "response" /\ GetPixDetailsDone(w, sdk))
                                => Same(decide(hw[w].donation, sdk.data).error)
                     /\ \A sdk \in OutcomesWithoutValor(hw[w].txId) :
                            GetPixDetailsDone(w, sdk)
                                => /\ thrown.name = "DatabaseError"
                                   /\ \E i \in DOMAIN thrown.message :
                                          thrown.message[i] = hw[w].txId]_vars

\* the gateway answered without a valor object, and the call ended with the
\* DatabaseError that names the transaction
C32_WrappedWithTransactionId ==
    /\ lastCall.official # "none"
    /\ lastCall.outcome = "DatabaseError"
    /\ lastCall.message = <<"Erro inesperado ao processar transacao ",
                            lastCall.txId>>

\* C34: the awaits of a handlePixWebhook call follow one another in the order
\* store query, gateway details call, registry lookup, save, none of them
\* twice, so a call awaits the gateway at most once; and when the details
\* call fails the handlePixWebhook call ends in that step with an error,
\* having got no status from the gateway.
C34_NoAutomaticRetry ==
    [][\A w \in Workers :
           LET Rank(pc) == CASE pc = "findByTxId" -> 1
                             [] pc = "getPixDetails" -> 2
                             [] pc = "findByExactCPF" -> 3
                             [] pc = "save" -> 4
                             [] OTHER -> 0
           IN /\ (hw[w].pc # "idle" /\ hw'[w] # hw[w])
                     => IF CallCompletes(w)
                        THEN hw'[w].pc \in {"idle", "findByTxId"}
                        ELSE Rank(hw'[w].pc) > Rank(hw[w].pc)
              /\ (hw[w].pc # "getPixDetails" /\ hw'[w].pc = "getPixDetails")
                     => hw[w].pc = "findByTxId"
              /\ \A responseData \in BOOLEAN :
                     GetPixDetailsDone(w, [kind |-> "reject",
                                           responseData |-> responseData])
                         => /\ CallCompletes(w)
                            /\ lastCall'.txId = hw[w].txId
                            /\ lastCall'.official = "none"
                            /\ lastCall'.outcome \in {"ExternalError",
                                                      "DatabaseError"}]_vars

\* a call whose gateway details call failed has ended with an error and
\* nothing is awaited
C34_EndedAfterFailedDetailsCall ==
    /\ lastCall.official = "none"
    /\ lastCall.outcome = "DatabaseError"
    /\ lastCall.message = <<"Erro inesperado ao processar transacao ",
                            lastCall.txId>>
    /\ \A w \in Workers : hw[w].pc = "idle"

(***************************************************************************)
(* Replaced connections of the hub                                         *)
(***************************************************************************)
\* C35: when the connection that subscribed last to a txId is open and an
\* earlier connection of the same txId has closed, the later connection is
\* the one the registry holds for the txId.
C35_ReplacementSurvivesDisconnect ==
    \A c1, c2 \in DOMAIN conns :
        (/\ c1 < c2
         /\ conns[c1].txId = conns[c2].txId
         /\ ~conns[c1].open
         /\ conns[c2].open
         /\ \A c \in DOMAIN conns : c > c2 => conns[c].txId # conns[c2].txId)
            => clients[conns[c2].txId] = [kind |-> "client", conn |-> c2]

\* C36: every connection whose keep-alive timer is running is the connection
\* the registry holds for its txId.
C36_KeepAliveTimersMatchRegistry ==
    \A c \in DOMAIN conns :
        conns[c].keepAlive
            => clients[conns[c].txId] = [kind |-> "client", conn |-> c]

(***************************************************************************)
(* Notifications and records against what was written                      *)
(***************************************************************************)
\* C37: what a request passes to the hub grows only when a handlePixWebhook
\* call of it returns a donation, by one item of the call's txId, and only
\* if the call's lookup found the record stored with status PAGA or the call
\* made a write that left a PAGA record of the txId in the store; a call that
\* failed adds its txId to the failures and nothing to the list; and
\* connections are written to only in the step that ends a request, from the
\* list so built.
C37_PersistBeforeNotify ==
    [][/\ \A w \in Workers :
              CallCompletes(w)
                  => LET before == router[w].processedDonationsForSSE
                         after == ForHub(router'[w])
                         t == lastCall'.txId
                     IN IF lastCall'.outcome \in {"donation", Null}
                        THEN \/ after = before
                             \/ /\ after = Append(before, after[Len(after)])
                                /\ after[Len(after)].txid = t
                                /\ lastCall'.outcome = "donation"
                                /\ \/ lastCall'.prior = "PAGA"
                                   \/ /\ lastCall'.writes = 1
                                      /\ \E d \in donations' :
                                             d.txId = t /\ d.status = "PAGA"
                        ELSE /\ after = before
                             /\ IF router'[w].busy
                                THEN router'[w].failedTxIds
                                         = Append(router[w].failedTxIds, t)
                                ELSE router'[w].response.failedTxIds
                                         = Append(router[w].failedTxIds, t)
       /\ (\E c \in DOMAIN conns : conns'[c].events # conns[c].events)
              => \E w \in Workers :
                     /\ CallCompletes(w)
                     /\ RequestEnds(w)
                     /\ router'[w].notified # <<>>]_vars

\* a request has ended that passed the hub the item of the record it wrote
\* and none for the element whose save failed
C37_NotifiedBesideFailedSave ==
    /\ ~router[1].busy
    /\ Len(router[1].notified) = 1
    /\ Len(router[1].response.failedTxIds) = 1
    /\ router[1].response.failedTxIds[1] # router[1].notified[1].txid
    /\ \E d \in donations :
           d.txId = router[1].notified[1].txid /\ d.status = "PAGA"
    /\ ~HasRow(router[1].response.failedTxIds[1])
    /\ lastCall.official = "CONCLUIDA"
    /\ lastCall.complete
    /\ lastCall.outcome = "DatabaseError"

\* C38: a record enters the store only in the step that ends the save of a
\* handlePixWebhook call whose lookup found no record and which got CONCLUIDA
\* from the gateway, it is of the call's txId and its status is PAGA; so a
\* stored record whose status is not PAGA was in the store before the step.
C38_RecordsAreBornPaid ==
    [][\A d \in donations' :
           IF \E e \in donations : e.id = d.id
           THEN TRUE
           ELSE /\ d.status = "PAGA"
                /\ \E w \in Workers :
                       /\ hw[w].pc = "save"
                       /\ CallCompletes(w)
                       /\ hw[w].prior = "none"
                       /\ hw[w].official = "CONCLUIDA"
                       /\ hw[w].txId = d.txId
                       /\ lastCall'.writes = 1]_vars

\* a record was created PAGA while the store held another whose status a
\* later webhook had overwritten
C38_CreatedBesideOverwrittenRecord ==
    /\ lastCall.prior = "none"
    /\ lastCall.writes = 1
    /\ \E d \in donations : d.txId = lastCall.txId /\ d.status = "PAGA"
    /\ \E d \in donations : d.txId # lastCall.txId /\ d.status # "PAGA"

(***************************************************************************)
(* The transport identity and the credential of EFIAuth                    *)
(***************************************************************************)
\* C33: over getToken and webhookConfig calls at most one HTTPS agent is ever
\* constructed, every request sent carries that agent, and once the module
\* holds an agent no call constructs or installs another.
C33_AgentConstructedOnce ==
    [][/\ efiAuth'.agents <= 1
       /\ efiAuth'.sent \subseteq {1}
       /\ efiAuth.httpsAgent # 0
              => /\ efiAuth'.httpsAgent = efiAuth.httpsAgent
                 /\ efiAuth'.agents = efiAuth.agents]_vars

\* a getToken call and a webhookConfig call have both sent a request after
\* the first call constructed the agent
C33_LaterCallsSentWithAgent ==
    /\ started >= 2
    /\ efiAuth.agents = 1
    /\ efiAuth.sent = {1}
    /\ \E w \in Workers : efiAuth.pc[w] = "put"
    /\ \E w \in Workers : efiAuth.pc[w] = "post"
\* C39: when the token request of a getToken call fails, or its response has
\* no access_token or no expires_in, the call throws ExternalError and the
\* cached token and its expiry stay as they were; the cached token or its
\* expiry changes only in a step in which a token request brought both, and
\* then to that token and to now + expires_in.
C39_FailedRefreshKeepsOldState ==
    [][/\ \A w \in Workers :
              efiAuth.pc[w] \in {"post", "config"}
                  => \A response \in TokenResponses(efiAuth.issued) :
                         getTokenDone(w, response)
                             => IF /\ response.kind = "response"
                                   /\ response.access_token # Undefined
                                   /\ response.expires_in # 0
                                THEN /\ efiAuth'.returned.kind = "fresh"
                                     /\ efiAuth'.accessToken
                                            = response.access_token
                                     /\ efiAuth'.tokenExpiresAt
                                            = efiAuth.now + response.expires_in
                                ELSE /\ efiAuth'.returned.kind = "ExternalError"
                                     /\ efiAuth'.accessToken
                                            = efiAuth.accessToken
                                     /\ efiAuth'.tokenExpiresAt
                                            = efiAuth.tokenExpiresAt
       /\ (\/ efiAuth'.accessToken # efiAuth.accessToken
           \/ efiAuth'.tokenExpiresAt # efiAuth.tokenExpiresAt)
              => /\ efiAuth'.returned.kind = "fresh"
                 /\ efiAuth'.accessToken = efiAuth'.returned.token
                 /\ \E w \in Workers :
                        /\ efiAuth.pc[w] \in {"post", "config"}
                        /\ efiAuth'.pc[w] \in {"idle", "put"}]_vars

\* a refresh of a token within 60 seconds of its expiry failed, and the token
\* is still cached with its expiry
C39_FailedRefreshBesideCachedToken ==
    /\ efiAuth.returned.kind = "ExternalError"
    /\ efiAuth.accessToken # Null
    /\ efiAuth.tokenExpiresAt > 0
    /\ efiAuth.now >= efiAuth.tokenExpiresAt - SafetyMargin
    /\ \A w \in Workers : efiAuth.pc[w] = "idle"

====
